---- MODULE Spec2Model ----
(***************************************************************************)
(* A model of jinja-rs (src/src/main.rs): the pipeline of main() - CLI     *)
(* handling, extraction of the embedded fish binary, configuration load,   *)
(* compilation of the Rhai filter functions, filter registration, the      *)
(* variable pass (script / cmd / cmds), template load, render and output.  *)
(*                                                                         *)
(* Strings that the program only passes around (names, shells, commands,   *)
(* script sources) are TLA+ strings.  Strings the program builds or cuts   *)
(* (command output, context values, rendered text) are sequences of        *)
(* tokens, so that trimming, joining and concatenation are computed.       *)
(* Option<T> is a sequence of length 0 (None) or 1 (Some).                 *)
(***************************************************************************)
EXTENDS Integers, Sequences, FiniteSets, TLC

\* ------------------------------------------------------------------ bounds
\* The longest list of VarSpec entries a configuration holds.
MaxSpecs == 2
\* The longest template, in expressions.
MaxItems == 2
\* The number of invocations of the tool that share one cache directory.
MaxProcs == 2
\* The longest standard output of a child, in tokens.
MaxOut == 5

\* ----------------------------------------------------------------- options
None == <<>>
Some(x) == <<x>>
IsSome(o) == Len(o) > 0
IsNone(o) == Len(o) = 0
Unwrap(o) == o[1]
\* Option::or
Or(a, b) == IF IsSome(a) THEN a ELSE b
\* Option::unwrap_or
UnwrapOr(a, d) == IF IsSome(a) THEN a[1] ELSE d

\* ----------------------------------------------------------- small helpers
Range(s) == {s[i] : i \in 1..Len(s)}
SeqsUpTo(S, n) == UNION {[1..k -> S] : k \in 0..n}

RECURSIVE Concat(_)
Concat(ss) == IF ss = <<>> THEN <<>> ELSE Head(ss) \o Concat(Tail(ss))

\* A join that puts nothing between the elements.
JoinNoSeparator(ss, sep) == Concat(ss)

\* [String]::join(sep)
RECURSIVE Join(_, _)
Join(ss, sep) ==
    IF ss = <<>> THEN <<>>
    ELSE IF Len(ss) = 1 THEN ss[1]
    ELSE ss[1] \o sep \o Join(Tail(ss), sep)

\* str::trim: leading and trailing whitespace removed, the interior kept.
Whitespace == {" ", "\n", "\t"}
RECURSIVE TrimStart(_)
TrimStart(s) ==
    IF s # <<>> /\ Head(s) \in Whitespace THEN TrimStart(Tail(s)) ELSE s
RECURSIVE TrimEnd(_)
TrimEnd(s) ==
    IF s # <<>> /\ s[Len(s)] \in Whitespace
    THEN TrimEnd(SubSeq(s, 1, Len(s) - 1))
    ELSE s
\* A trim of the leading whitespace only (str::trim_start).
TrimLeading(s) == TrimStart(s)

Trim(s) == TrimEnd(TrimStart(s))

\* HashMap<String, Value>: a list of entries, at most one per key.
HasKey(m, k) == \E i \in 1..Len(m) : m[i].k = k
Get(m, k) == m[CHOOSE i \in 1..Len(m) : m[i].k = k].v
Keys(m) == {m[i].k : i \in 1..Len(m)}
\* An insert that keeps the value of a present key (entry().or_insert).
InsertKeepFirst(m, k, v) ==
    IF HasKey(m, k) THEN m ELSE Append(m, [k |-> k, v |-> v])

\* HashMap::insert: the value of a present key is replaced.
Insert(m, k, v) ==
    IF HasKey(m, k)
    THEN [i \in 1..Len(m) |-> IF m[i].k = k THEN [k |-> k, v |-> v] ELSE m[i]]
    ELSE Append(m, [k |-> k, v |-> v])

\* --------------------------------------------------------------- data model
\* The fields of VarSpec, with serde's defaults.
NoSpec ==
    [name |-> None, function |-> None, arguments |-> <<>>, script |-> "",
     cmd |-> None, cmds |-> None, shell |-> None, cwd |-> None, env |-> None]

Names == {"x", "y"}

\* Script sources, each a sample of one behaviour of the Rhai engine.
ScriptOk == "40 + 2"          \* evaluates to 42, as an expression or a body
ScriptShout == "s.to_upper() + \"!\""  \* a body using the parameter s
ScriptSyntaxError == "1 +"    \* does not parse
ScriptRuntimeError == "nope"  \* parses; fails when run (unknown variable)
ScriptBlank == "  "           \* only whitespace
ScriptDefine == "let nope = 42; nope"  \* defines the variable, evaluates to 42

\* Commands, and what a child running them writes to its standard output.
CmdOne == "echo one"
CmdTwo == "echo ' two '"
CmdMissing == "nonexistent_command_xyz"
ChildStdout(cmd) ==
    IF cmd = CmdOne THEN <<"one", "\n">>
    ELSE IF cmd = CmdTwo THEN <<" ", "two", " ", "\n">>
    ELSE <<>>
\* A shell that does not find the command says so on standard error and
\* exits with 127.
ChildStderr(cmd) == IF cmd = CmdMissing THEN <<"not found">> ELSE <<>>
ChildStatus(cmd) == IF cmd = CmdMissing THEN 127 ELSE 0

\* The machine the tool runs on.
BinPath == "~/.cache/jinja-rs/fish_runtime"
Installed == {"sh", "bash"}
Directories == {"/tmp"}
ParentEnv == <<[k |-> "PATH", v |-> "/bin"], [k |-> "LANG", v |-> "C"]>>

\* The VarSpec entries configurations are built from: every way of giving a
\* named variable one source, the overlaps of sources, filter definitions,
\* and entries that carry both a name and a function or neither.
ScriptVars ==
    {[NoSpec EXCEPT !.name = Some("x"), !.script = s] :
        s \in {ScriptOk, ScriptRuntimeError, ScriptBlank}}
    \cup {[NoSpec EXCEPT !.name = Some("y"), !.script = ScriptDefine]}
CmdVars ==
    {[NoSpec EXCEPT !.name = Some("x"), !.cmd = Some(CmdOne), !.shell = sh] :
        sh \in {None, Some("sh"), Some("fish"), Some("nosuch")}}
    \cup {[NoSpec EXCEPT !.name = Some("y"), !.cmd = Some(CmdOne)],
          [NoSpec EXCEPT !.name = Some("x"), !.cmd = Some(CmdMissing),
                         !.shell = Some("sh")],
          [NoSpec EXCEPT !.name = Some("x"), !.cmd = Some(CmdTwo),
                         !.cwd = Some("/missing")]}
CmdsVars ==
    {[NoSpec EXCEPT !.name = Some("x"), !.cmds = Some(<<CmdTwo, CmdOne>>),
                    !.shell = sh] : sh \in {None, Some("nosuch")}}
    \cup {[NoSpec EXCEPT !.name = Some("x"), !.cmds = Some(<<>>)],
          [NoSpec EXCEPT !.name = Some("y"), !.cmds = Some(<<CmdTwo, CmdOne>>)]}
OverlapVars ==
    ({[NoSpec EXCEPT !.name = Some("x"), !.script = s, !.cmd = c, !.cmds = cs] :
        s \in {"", ScriptOk}, c \in {None, Some(CmdOne)},
        cs \in {None, Some(<<CmdTwo>>)}}
    \ {NoSpec, [NoSpec EXCEPT !.name = Some("x")],
        [NoSpec EXCEPT !.name = Some("x"), !.cmds = Some(<<CmdTwo>>)],
        [NoSpec EXCEPT !.name = Some("x"), !.script = ScriptOk,
                       !.cmds = Some(<<CmdTwo>>)]})
    \cup {[NoSpec EXCEPT !.name = Some("x"), !.script = ScriptSyntaxError,
                           !.cmd = Some(CmdOne)]}
FilterSpecs ==
    {[NoSpec EXCEPT !.function = Some("f"), !.arguments = <<"s">>, !.script = s] :
        s \in {ScriptShout, ScriptRuntimeError}}
    \cup {[NoSpec EXCEPT !.function = Some("f"), !.arguments = a,
                           !.script = ScriptOk] : a \in {<<>>, <<"s", "t">>}}
MixedSpecs ==
    {[NoSpec EXCEPT !.name = Some("x"), !.function = Some("f"),
                    !.arguments = <<"s">>, !.script = ScriptOk, !.cmd = c] :
        c \in {None, Some(CmdOne)}}
    \cup {[NoSpec EXCEPT !.name = Some("x"), !.function = Some("f"),
                           !.arguments = <<"s">>, !.script = ScriptSyntaxError],
          [NoSpec EXCEPT !.cmd = Some(CmdOne)]}
\* Entries with an environment overlay: one that adds a variable, one that
\* overrides an inherited variable and adds another, next to one without.
EnvVars ==
    {[NoSpec EXCEPT !.name = Some("x"), !.cmd = Some(CmdOne), !.shell = Some("sh"),
                    !.env = Some(<<[k |-> "FOO", v |-> "1"]>>)],
     [NoSpec EXCEPT !.name = Some("x"), !.cmd = Some(CmdOne),
                    !.cmds = Some(<<CmdTwo, CmdOne>>),
                    !.env = Some(<<[k |-> "PATH", v |-> "/opt"],
                                   [k |-> "FOO", v |-> "2"]>>)],
     [NoSpec EXCEPT !.name = Some("y"), !.cmd = Some(CmdOne)]}
\* An entry with a name and a function that also has a command and a
\* command list.
FunctionCmdVars ==
    {[NoSpec EXCEPT !.name = Some("x"), !.function = Some("f"),
                    !.arguments = <<"s">>, !.script = ScriptShout,
                    !.cmd = Some(CmdOne), !.cmds = Some(<<CmdTwo>>)]}
VarSpecs ==
    ScriptVars \cup CmdVars \cup CmdsVars \cup OverlapVars \cup FilterSpecs
    \cup MixedSpecs

\* RootConfig: every configuration of at most MaxSpecs entries.
DefaultShells == {None, Some("bash"), Some("fish")}
RootConfigs ==
    {[default_shell |-> d, vars |-> vs] :
        d \in DefaultShells, vs \in SeqsUpTo(VarSpecs, MaxSpecs)}
    \cup {[default_shell |-> Some("bash"), vars |-> vs] :
            vs \in SeqsUpTo(EnvVars \cup FunctionCmdVars, MaxSpecs)}

\* Cli: the two flags clap parses.
CliArgs == {[template |-> t, info |-> i] : t \in {None, Some("t.j2")}, i \in BOOLEAN}

\* A template file: unreadable, malformed, or a list of expressions
\* {{ var }} / {{ var | filter }}.
Unreadable == [kind |-> "unreadable", items |-> <<>>]
Malformed == [kind |-> "malformed", items |-> <<>>]
TemplateItems ==
    {[var |-> "x", filter |-> None], [var |-> "x", filter |-> Some("f")]}
TemplateFiles ==
    {Unreadable, Malformed}
    \cup {[kind |-> "text", items |-> it] : it \in SeqsUpTo(TemplateItems, MaxItems)}

\* ------------------------------------------------------------------- state
VARIABLES
    pc,          \* the position of main()
    cli,         \* the parsed command line
    home,        \* whether HOME is set
    cacheDirOk,  \* whether ~/.cache/jinja-rs can be created
    fishFile,    \* the file at BinPath: "absent", "partial" or "present"
    extracted,   \* EXTRACTED_SHELL, the OnceLock cell
    guard,       \* whether a CleanupGuard is alive
    root,        \* Option<RootConfig>
    ast,         \* the compiled functions, a set of [name, params, body]
    filters,     \* the filter names registered on the Environment
    ctx,         \* the template context
    idx,         \* the position of the variable pass in root.vars
    calls,       \* every script evaluation and process spawn so far, in order
    template,    \* Option of the template file read
    rendered,    \* Option of the text render returned
    stdout,      \* the chunks written to standard output, in order
    failure,     \* the error main is returning with, "" if none
    exitCode,    \* Option of the process exit code
    procs,       \* the invocations sharing the cache directory, each a record
    request,     \* Option of the arguments of one call of eval_cmd
    child,       \* Option of what the child of that call does
    returned,    \* Option of the string that call returned
    environ      \* the environment of the process itself

vars ==
    <<pc, cli, home, cacheDirOk, fishFile, extracted, guard, root, ast, filters,
      ctx, idx, calls, template, rendered, stdout, failure, exitCode,
      procs, request, child, returned, environ>>

\* ------------------------------------------------ get_embedded_shell_path
\* The outcomes of fs::File::create followed by write_all and chmod.
CreateOutcomes == {"ok", "busy", "denied", "write_failed"}

\* The initializer with ExecutableFileBusy handled as any other error.
InitEmbeddedShellBusyPanics(hasHome, dirOk, file, create) ==
    IF ~hasHome \/ ~dirOk
    THEN [panic |-> TRUE, path |-> None, file |-> file]
    ELSE IF file # "absent"
    THEN [panic |-> FALSE, path |-> Some(BinPath), file |-> file]
    ELSE IF create = "ok"
    THEN [panic |-> FALSE, path |-> Some(BinPath), file |-> "present"]
    ELSE IF create = "write_failed"
    THEN [panic |-> TRUE, path |-> None, file |-> "partial"]
    ELSE [panic |-> TRUE, path |-> None, file |-> file]

\* The initializer with a refused File::create passed over like a busy file:
\* the path is returned although no file is there.
InitEmbeddedShellDeniedTolerated(hasHome, dirOk, file, create) ==
    IF ~hasHome \/ ~dirOk
    THEN [panic |-> TRUE, path |-> None, file |-> file]
    ELSE IF file # "absent"
    THEN [panic |-> FALSE, path |-> Some(BinPath), file |-> file]
    ELSE IF create = "ok" \/ create = "busy"
    THEN [panic |-> FALSE, path |-> Some(BinPath), file |-> "present"]
    ELSE IF create = "write_failed"
    THEN [panic |-> TRUE, path |-> None, file |-> "partial"]
    ELSE [panic |-> FALSE, path |-> Some(BinPath), file |-> file]

\* The initializer closure of EXTRACTED_SHELL.get_or_init: whether it panics,
\* the path it returns and the file it leaves.
InitEmbeddedShell(hasHome, dirOk, file, create) ==
    IF ~hasHome \/ ~dirOk
    THEN [panic |-> TRUE, path |-> None, file |-> file]
    ELSE IF file # "absent"
    THEN [panic |-> FALSE, path |-> Some(BinPath), file |-> file]
    ELSE IF create = "ok"
    THEN [panic |-> FALSE, path |-> Some(BinPath), file |-> "present"]
    ELSE IF create = "busy"
    THEN [panic |-> FALSE, path |-> Some(BinPath), file |-> "present"]
    ELSE IF create = "write_failed"
    THEN [panic |-> TRUE, path |-> None, file |-> "partial"]
    ELSE [panic |-> TRUE, path |-> None, file |-> file]

\* A get_or_init that runs the initializer on every call.
GetEmbeddedShellPathNoCache(cell, hasHome, dirOk, file, create) ==
    InitEmbeddedShell(hasHome, dirOk, file, create)

\* OnceLock::get_or_init: the initializer runs only while the cell is empty.
GetEmbeddedShellPath(cell, hasHome, dirOk, file, create) ==
    IF IsSome(cell)
    THEN [panic |-> FALSE, path |-> cell, file |-> file]
    ELSE InitEmbeddedShell(hasHome, dirOk, file, create)

\* ---------------------------------------------------------------- eval_cmd
\* The precedence with the global default consulted first.
ShellChoiceGlobalFirst(shell, global_default) ==
    UnwrapOr(Or(global_default, shell), "fish")

\* let shell_choice = shell.or(global_default).unwrap_or("fish");
ShellChoice(shell, global_default) == UnwrapOr(Or(shell, global_default), "fish")

\* Every shell, "fish" too, launched by its name.
ProgramBySearchPath(shell_choice, cell) == shell_choice

\* The program Command::new is given: the extracted binary for "fish", the
\* name itself (looked up on the search path) for any other shell.
Program(shell_choice, cell) ==
    IF shell_choice = "fish" THEN Unwrap(cell) ELSE shell_choice

\* An overlay that leaves a variable the process already has as it is.
RECURSIVE ApplyEnvKeepInherited(_, _)
ApplyEnvKeepInherited(base, pairs) ==
    IF pairs = <<>> THEN base
    ELSE ApplyEnvKeepInherited(InsertKeepFirst(base, Head(pairs).k, Head(pairs).v),
                               Tail(pairs))

\* command.env(k, v) for every pair of the overlay, on the inherited environment.
RECURSIVE ApplyEnv(_, _)
ApplyEnv(base, pairs) ==
    IF pairs = <<>> THEN base
    ELSE ApplyEnv(Insert(base, Head(pairs).k, Head(pairs).v), Tail(pairs))
ChildEnv(env) == IF IsSome(env) THEN ApplyEnv(environ, Unwrap(env)) ELSE environ

\* command.output(): Err with the diagnostic when the child cannot be
\* spawned, else Ok with the child's stdout, stderr and exit status.
Output(program, cmd, cwd, file) ==
    IF IsSome(cwd) /\ Unwrap(cwd) \notin Directories
    THEN [ok |-> FALSE, out |-> <<"No such file or directory (cwd)">>,
          stderr |-> <<>>, status |-> 0]
    ELSE IF program = BinPath /\ file # "present"
    THEN [ok |-> FALSE, out |-> <<"No such file or directory">>,
          stderr |-> <<>>, status |-> 0]
    ELSE IF program # BinPath /\ program \notin Installed
    THEN [ok |-> FALSE, out |-> <<"No such file or directory">>,
          stderr |-> <<>>, status |-> 0]
    ELSE [ok |-> TRUE, out |-> ChildStdout(cmd),
          stderr |-> ChildStderr(cmd), status |-> ChildStatus(cmd)]

\* The match with a child that exits non-zero reported as an error.
FormatOutputCheckStatus(output) ==
    IF output.ok /\ output.status = 0 THEN Trim(output.out)
    ELSE <<"ERROR: ">> \o output.stderr

\* The match with the child's standard error appended to its output.
FormatOutputWithStderr(output) ==
    IF output.ok THEN Trim(output.out \o output.stderr)
    ELSE <<"ERROR: ">> \o output.out

\* The match with the diagnostic returned bare.
FormatOutputBare(output) == IF output.ok THEN Trim(output.out) ELSE output.out

\* match output { Ok(out) => trimmed stdout, Err(e) => format!("ERROR: {}", e) }
FormatOutput(output) ==
    IF output.ok THEN Trim(output.out) ELSE <<"ERROR: ">> \o output.out

EvalCmd(cmd, shell, global_default, cwd, env, cell, file) ==
    FormatOutput(Output(Program(ShellChoice(shell, global_default), cell), cmd, cwd, file))

\* The record of one spawn kept in calls.
SpawnCall(i, branch, cmd, shell, global_default, cwd, env, cell, file) ==
    LET choice == ShellChoice(shell, global_default)
        program == Program(choice, cell)
    IN  [kind |-> "spawn", spec |-> i, branch |-> branch, src |-> cmd,
         shell_choice |-> choice, program |-> program, cwd |-> cwd,
         env |-> ChildEnv(env), ok |-> Output(program, cmd, cwd, file).ok,
         status |-> Output(program, cmd, cwd, file).status,
         value |-> EvalCmd(cmd, shell, global_default, cwd, env, cell, file)]

\* ------------------------------------------------------------- Rhai engine
\* Scope::new(): a scope is the set of the variables defined in it.
ScopeNew == {}

\* Engine::eval_with_scope: a let statement defines its variable in the scope
\* passed, a variable is read from that scope, and an unknown one is an error.
EvalWithScope(scope, script) ==
    IF script = ScriptOk THEN [ok |-> TRUE, value |-> <<"42">>, scope |-> scope]
    ELSE IF script = ScriptDefine
    THEN [ok |-> TRUE, value |-> <<"42">>, scope |-> scope \cup {"nope"}]
    ELSE IF script = ScriptRuntimeError /\ "nope" \in scope
    THEN [ok |-> TRUE, value |-> <<"42">>, scope |-> scope]
    ELSE [ok |-> FALSE, value |-> <<>>, scope |-> scope]

\* The record of one script evaluation kept in calls.
ScriptCall(i, script) ==
    [kind |-> "script", spec |-> i, branch |-> "script", src |-> script,
     shell_choice |-> "", program |-> "", cwd |-> None, env |-> <<>>, status |-> 0,
     ok |-> EvalWithScope(ScopeNew, script).ok,
     value |-> EvalWithScope(ScopeNew, script).value]

\* The function definitions func_defs holds, one per spec with a function.
RECURSIVE FuncDefs(_)
FuncDefs(specs) ==
    IF specs = <<>> THEN <<>>
    ELSE (IF IsSome(Head(specs).function)
          THEN <<[name |-> Unwrap(Head(specs).function),
                  params |-> Head(specs).arguments,
                  body |-> Head(specs).script]>>
          ELSE <<>>) \o FuncDefs(Tail(specs))

\* A compilation that drops the definitions that do not parse.
CompileLenient(defs) ==
    [ok |-> TRUE, ast |-> {d \in Range(defs) : d.body # ScriptSyntaxError}]

\* Engine::compile: fails on a body that does not parse and on two
\* definitions of one name with the same number of parameters.
Compile(defs) ==
    IF \/ \E i \in 1..Len(defs) : defs[i].body = ScriptSyntaxError
       \/ \E i, j \in 1..Len(defs) :
            i < j /\ defs[i].name = defs[j].name
                  /\ Len(defs[i].params) = Len(defs[j].params)
    THEN [ok |-> FALSE, ast |-> {}]
    ELSE [ok |-> TRUE, ast |-> Range(defs)]

\* String::to_upper of Rhai, token by token.
UpperToken(t) ==
    CASE t = "one" -> "ONE"
      [] t = "two" -> "TWO"
      [] t = "No such file or directory" -> "NO SUCH FILE OR DIRECTORY"
      [] t = "No such file or directory (cwd)" -> "NO SUCH FILE OR DIRECTORY (CWD)"
      [] OTHER -> t
ToUpper(s) == [i \in 1..Len(s) |-> UpperToken(s[i])]

\* A call that finds the function by its name alone and runs its body
\* whatever the number of arguments.
CallFnAnyArity(a, fn_name, args) ==
    IF ~\E d \in a : d.name = fn_name
    THEN [ok |-> FALSE, value |-> <<>>]
    ELSE LET d == CHOOSE d \in a : d.name = fn_name
         IN  IF d.body = ScriptOk THEN [ok |-> TRUE, value |-> <<"42">>]
             ELSE IF d.body = ScriptShout /\ args # <<>>
             THEN [ok |-> TRUE, value |-> ToUpper(args[1]) \o <<"!">>]
             ELSE [ok |-> FALSE, value |-> <<>>]

\* Engine::call_fn on a fresh Scope: the function of that name and arity.
CallFn(a, fn_name, args) ==
    IF ~\E d \in a : d.name = fn_name /\ Len(d.params) = Len(args)
    THEN [ok |-> FALSE, value |-> <<>>]
    ELSE LET d == CHOOSE d \in a : d.name = fn_name /\ Len(d.params) = Len(args)
         IN  IF d.body = ScriptOk THEN [ok |-> TRUE, value |-> <<"42">>]
             ELSE IF d.body = ScriptShout /\ \E i \in 1..Len(args) : d.params[i] = "s"
             THEN [ok |-> TRUE,
                   value |-> ToUpper(args[CHOOSE i \in 1..Len(args) : d.params[i] = "s"])
                             \o <<"!">>]
             ELSE IF d.body = "" \/ d.body = ScriptBlank
             THEN [ok |-> TRUE, value |-> <<>>]
             ELSE [ok |-> FALSE, value |-> <<>>]

\* A closure that calls the function without the filtered value.
FilterNoArgument(a, fn_name, name) == CallFn(a, fn_name, <<>>)

\* The closure registered by env.add_filter: one String argument.
Filter(a, fn_name, name) == CallFn(a, fn_name, <<name>>)

\* ------------------------------------------------------- the variable pass
\* The test without the trim: only the empty string counts as no script.
IsEmptyNoTrim(script) == script = ""

\* spec.script.trim().is_empty()
TrimIsEmpty(script) == script = "" \/ script = ScriptBlank

\* The script branch with a failure stored as a placeholder, as eval_cmd does.
ScriptBranchFailSoft(spec, i, st) ==
    IF IsNone(spec.function) /\ ~TrimIsEmpty(spec.script)
    THEN LET r == EvalWithScope(ScopeNew, spec.script)
         IN  [st EXCEPT !.ctx = Insert(st.ctx, Unwrap(spec.name),
                                       IF r.ok THEN r.value ELSE <<"ERROR: ", "script">>),
                        !.calls = Append(st.calls, ScriptCall(i, spec.script))]
    ELSE st

\* The script branch without the test for a function name.
ScriptBranchAnyFunction(spec, i, st) ==
    IF ~TrimIsEmpty(spec.script)
    THEN LET r == EvalWithScope(ScopeNew, spec.script)
         IN  IF r.ok
             THEN [st EXCEPT !.ctx = Insert(st.ctx, Unwrap(spec.name), r.value),
                             !.calls = Append(st.calls, ScriptCall(i, spec.script))]
             ELSE [st EXCEPT !.err = TRUE,
                             !.calls = Append(st.calls, ScriptCall(i, spec.script))]
    ELSE st

\* The scope left behind by the script evaluations made so far.
RECURSIVE ScopeAfter(_)
ScopeAfter(made) ==
    IF made = <<>> THEN ScopeNew
    ELSE LET before == ScopeAfter(SubSeq(made, 1, Len(made) - 1))
             e == made[Len(made)]
         IN  IF e.kind = "script" THEN EvalWithScope(before, e.src).scope
             ELSE before

\* The script branch with one scope kept for the whole variable pass.
ScriptBranchSharedScope(spec, i, st) ==
    IF IsNone(spec.function) /\ ~TrimIsEmpty(spec.script)
    THEN LET r == EvalWithScope(ScopeAfter(st.calls), spec.script)
             call == [ScriptCall(i, spec.script) EXCEPT !.ok = r.ok,
                                                        !.value = r.value]
         IN  IF r.ok
             THEN [st EXCEPT !.ctx = Insert(st.ctx, Unwrap(spec.name), r.value),
                             !.calls = Append(st.calls, call)]
             ELSE [st EXCEPT !.err = TRUE, !.calls = Append(st.calls, call)]
    ELSE st

\* The state a spec is resolved in: the context, the calls made and whether
\* an error is being returned.
ScriptBranch(spec, i, st) ==
    IF IsNone(spec.function) /\ ~TrimIsEmpty(spec.script)
    THEN LET r == EvalWithScope(ScopeNew, spec.script)
         IN  IF r.ok
             THEN [st EXCEPT !.ctx = Insert(st.ctx, Unwrap(spec.name), r.value),
                             !.calls = Append(st.calls, ScriptCall(i, spec.script))]
             ELSE [st EXCEPT !.err = TRUE,
                             !.calls = Append(st.calls, ScriptCall(i, spec.script))]
    ELSE st

\* The cmd branch with a failed spawn tried a second time.
CmdBranchRetry(spec, i, st, global_default, cell, file) ==
    IF IsSome(spec.cmd)
    THEN LET call == SpawnCall(i, "cmd", Unwrap(spec.cmd), spec.shell,
                               global_default, spec.cwd, spec.env, cell, file)
         IN  [st EXCEPT !.ctx = Insert(st.ctx, Unwrap(spec.name), call.value),
                        !.calls = st.calls \o
                            (IF call.ok THEN <<call>> ELSE <<call, call>>)]
    ELSE st

\* if let Some(cmd) = &spec.cmd { ctx.insert(name, eval_cmd(..)) }
CmdBranch(spec, i, st, global_default, cell, file) ==
    IF IsSome(spec.cmd)
    THEN LET result == EvalCmd(Unwrap(spec.cmd), spec.shell, global_default,
                               spec.cwd, spec.env, cell, file)
         IN  [st EXCEPT !.ctx = Insert(st.ctx, Unwrap(spec.name), result),
                        !.calls = Append(st.calls,
                            SpawnCall(i, "cmd", Unwrap(spec.cmd), spec.shell,
                                      global_default, spec.cwd, spec.env, cell, file))]
    ELSE st

\* for cmd in cmd_list { results.push(eval_cmd(..)) }
CmdListResults(cmd_list, spec, global_default, cell, file) ==
    [j \in 1..Len(cmd_list) |->
        EvalCmd(cmd_list[j], spec.shell, global_default, spec.cwd, spec.env, cell, file)]
CmdListCalls(cmd_list, spec, i, global_default, cell, file) ==
    [j \in 1..Len(cmd_list) |->
        SpawnCall(i, "cmds", cmd_list[j], spec.shell, global_default, spec.cwd,
                  spec.env, cell, file)]

\* The cmds branch skipped for an empty list.
CmdsBranchSkipEmpty(spec, i, st, global_default, cell, file) ==
    IF IsSome(spec.cmds) /\ Unwrap(spec.cmds) # <<>>
    THEN LET results == CmdListResults(Unwrap(spec.cmds), spec, global_default, cell, file)
             joined == Join(results, <<"\n">>)
         IN  [st EXCEPT !.ctx = Insert(st.ctx, Unwrap(spec.name), joined),
                        !.calls = st.calls \o
                            CmdListCalls(Unwrap(spec.cmds), spec, i, global_default,
                                         cell, file)]
    ELSE st

CmdsBranch(spec, i, st, global_default, cell, file) ==
    IF IsSome(spec.cmds)
    THEN LET results == CmdListResults(Unwrap(spec.cmds), spec, global_default, cell, file)
             joined == Join(results, <<"\n">>)
         IN  [st EXCEPT !.ctx = Insert(st.ctx, Unwrap(spec.name), joined),
                        !.calls = st.calls \o
                            CmdListCalls(Unwrap(spec.cmds), spec, i, global_default,
                                         cell, file)]
    ELSE st

\* The body with the three branches chained by else-if: the first that
\* matches is the only one that runs.
ResolveSpecElseIf(spec, i, st, global_default, cell, file) ==
    IF IsNone(spec.name) THEN st
    ELSE IF IsNone(spec.function) /\ ~TrimIsEmpty(spec.script)
    THEN ScriptBranch(spec, i, st)
    ELSE IF IsSome(spec.cmd)
    THEN CmdBranch(spec, i, st, global_default, cell, file)
    ELSE CmdsBranch(spec, i, st, global_default, cell, file)

\* The body of `for spec in specs` of the variable pass, for one spec.
ResolveSpec(spec, i, st, global_default, cell, file) ==
    IF IsSome(spec.name)
    THEN LET s1 == ScriptBranch(spec, i, st)
         IN  IF s1.err THEN s1
             ELSE CmdsBranch(spec, i,
                      CmdBranch(spec, i, s1, global_default, cell, file),
                      global_default, cell, file)
    ELSE st

\* ------------------------------------------------------------------ render
\* The expression with a failed filter call rendered as the empty string.
RenderItemSwallow(item, context, registered, a) ==
    LET value == IF HasKey(context, item.var) THEN Get(context, item.var) ELSE <<>>
    IN  IF IsNone(item.filter) THEN [ok |-> TRUE, text |-> value]
        ELSE IF Unwrap(item.filter) \notin registered THEN [ok |-> FALSE, text |-> <<>>]
        ELSE [ok |-> TRUE, text |-> Filter(a, Unwrap(item.filter), value).value]

\* One expression of the template: the variable's value, the empty string
\* for an undefined name, passed through the filter if there is one.
\* An expression under strict undefined behaviour: a name that is not in the
\* context is an error.
RenderItemStrict(item, context, registered, a) ==
    IF ~HasKey(context, item.var) THEN [ok |-> FALSE, text |-> <<>>]
    ELSE IF IsNone(item.filter) THEN [ok |-> TRUE, text |-> Get(context, item.var)]
    ELSE IF Unwrap(item.filter) \notin registered THEN [ok |-> FALSE, text |-> <<>>]
    ELSE LET r == Filter(a, Unwrap(item.filter), Get(context, item.var))
         IN  [ok |-> r.ok, text |-> r.value]

RenderItem(item, context, registered, a) ==
    LET value == IF HasKey(context, item.var) THEN Get(context, item.var) ELSE <<>>
    IN  IF IsNone(item.filter) THEN [ok |-> TRUE, text |-> value]
        ELSE IF Unwrap(item.filter) \notin registered THEN [ok |-> FALSE, text |-> <<>>]
        ELSE LET r == Filter(a, Unwrap(item.filter), value)
             IN  [ok |-> r.ok, text |-> r.value]

\* A render that returns what it had rendered when an expression fails.
RECURSIVE RenderPartial(_, _, _, _)
RenderPartial(items, context, registered, a) ==
    IF items = <<>> THEN [ok |-> TRUE, text |-> <<>>]
    ELSE LET first == RenderItem(Head(items), context, registered, a)
         IN  IF ~first.ok THEN [ok |-> TRUE, text |-> <<>>]
             ELSE [ok |-> TRUE,
                   text |-> first.text
                            \o RenderPartial(Tail(items), context, registered, a).text]

\* tmpl.render(ctx): the concatenated expressions, or the first error.
RECURSIVE Render(_, _, _, _)
Render(items, context, registered, a) ==
    IF items = <<>> THEN [ok |-> TRUE, text |-> <<>>]
    ELSE LET first == RenderItem(Head(items), context, registered, a)
             rest == Render(Tail(items), context, registered, a)
         IN  IF ~first.ok THEN [ok |-> FALSE, text |-> <<>>]
             ELSE IF ~rest.ok THEN [ok |-> FALSE, text |-> <<>>]
             ELSE [ok |-> TRUE, text |-> first.text \o rest.text]

\* ------------------------------------------------------------------ main()
Init ==
    /\ pc = "start"
    /\ cli \in CliArgs
    /\ home \in BOOLEAN
    /\ cacheDirOk \in BOOLEAN
    /\ fishFile \in {"absent", "present"}
    /\ extracted = None
    /\ guard = FALSE
    /\ root = None
    /\ ast = {}
    /\ filters = {}
    /\ ctx = <<>>
    /\ idx = 1
    /\ calls = <<>>
    /\ template = None
    /\ rendered = None
    /\ stdout = <<>>
    /\ failure = ""
    /\ exitCode = None
    /\ procs = <<>>
    /\ request = None
    /\ child = None
    /\ returned = None
    /\ environ = ParentEnv

\* An error propagated by `?`: main returns it.
Fail(why) ==
    /\ failure' = why
    /\ pc' = "exit"

\* if cli.info: the three println! of the version banner.
PrintInfo ==
    /\ UNCHANGED <<procs, request, child, returned, environ>>
    /\ pc = "start"
    /\ cli.info
    /\ stdout' = stdout \o <<<<"jinja-rs v">>, <<"Build Shell Source">>, <<"Embedded Size">>>>
    /\ pc' = "info_extract"
    /\ UNCHANGED <<cli, home, cacheDirOk, fishFile, extracted, guard, root, ast,
                   filters, ctx, idx, calls, template, rendered, failure, exitCode>>

\* let template_path = cli.template.ok_or_else(..)?
RequireTemplate ==
    /\ UNCHANGED <<procs, request, child, returned, environ>>
    /\ pc = "start"
    /\ ~cli.info
    /\ IF IsNone(cli.template) THEN Fail("no_template")
       ELSE pc' = "extract" /\ UNCHANGED failure
    /\ UNCHANGED <<cli, home, cacheDirOk, fishFile, extracted, guard, root, ast,
                   filters, ctx, idx, calls, template, rendered, stdout, exitCode>>

\* let shell_path = get_embedded_shell_path(); let _guard = CleanupGuard(shell_path);
\* A panic of the initializer ends the process with code 101.
ExtractShell ==
    /\ UNCHANGED <<procs, request, child, returned, environ>>
    /\ pc \in {"extract", "info_extract"}
    /\ \E create \in CreateOutcomes :
        LET r == GetEmbeddedShellPath(extracted, home, cacheDirOk, fishFile, create)
        IN  /\ fishFile' = r.file
            /\ IF r.panic
               THEN /\ pc' = "done"
                    /\ failure' = "panic"
                    /\ exitCode' = Some(101)
                    /\ UNCHANGED <<extracted, guard>>
               ELSE /\ extracted' = r.path
                    /\ guard' = TRUE
                    /\ pc' = IF pc = "extract" THEN "load" ELSE "info_verify"
                    /\ UNCHANGED <<failure, exitCode>>
    /\ UNCHANGED <<cli, home, cacheDirOk, root, ast, filters, ctx, idx, calls,
                   template, rendered, stdout>>

\* The outcomes of spawning the file at BinPath with --version: a file that
\* is there may still be refused by the system, a missing one always is.
VersionRuns(file) == IF file = "present" THEN BOOLEAN ELSE {FALSE}

\* The verification with a failed spawn returned as an error of main.
VerifyShellFailHard ==
    /\ UNCHANGED <<procs, request, child, returned, environ>>
    /\ pc = "info_verify"
    /\ \E started \in VersionRuns(fishFile) :
        IF started
        THEN /\ stdout' = Append(stdout, <<"Embedded Shell Verification: ", "[OK]">>)
             /\ UNCHANGED failure
        ELSE /\ failure' = "verify"
             /\ UNCHANGED stdout
    /\ pc' = "exit"
    /\ UNCHANGED <<cli, home, cacheDirOk, fishFile, extracted, guard, root, ast,
                   filters, ctx, idx, calls, template, rendered, exitCode>>

\* Command::new(shell_path).arg("--version").output(), its report, return Ok(()).
VerifyShell ==
    /\ UNCHANGED <<procs, request, child, returned, environ>>
    /\ pc = "info_verify"
    /\ \E started \in VersionRuns(fishFile) :
        stdout' = Append(stdout,
            IF started
            THEN <<"Embedded Shell Verification: ", "[OK]">>
            ELSE <<"Embedded Shell Verification: ", "FAILED">>)
    /\ pc' = "exit"
    /\ UNCHANGED <<cli, home, cacheDirOk, fishFile, extracted, guard, root, ast,
                   filters, ctx, idx, calls, template, rendered, failure, exitCode>>

\* fs::read_to_string("j2.yaml")? and serde_yaml::from_str(&yaml)?
LoadConfig ==
    /\ UNCHANGED <<procs, request, child, returned, environ>>
    /\ pc = "load"
    /\ \/ /\ Fail("config")
          /\ UNCHANGED root
       \/ /\ \E r \in RootConfigs : root' = Some(r)
          /\ pc' = "compile"
          /\ UNCHANGED failure
    /\ UNCHANGED <<cli, home, cacheDirOk, fishFile, extracted, guard, ast, filters,
                   ctx, idx, calls, template, rendered, stdout, exitCode>>

\* The func_defs loop and engine.compile(func_defs)?
CompileFunctions ==
    /\ UNCHANGED <<procs, request, child, returned, environ>>
    /\ pc = "compile"
    /\ LET r == Compile(FuncDefs(Unwrap(root).vars))
       IN  IF r.ok
           THEN /\ ast' = r.ast
                /\ pc' = "register"
                /\ UNCHANGED failure
           ELSE /\ Fail("compile")
                /\ UNCHANGED ast
    /\ UNCHANGED <<cli, home, cacheDirOk, fishFile, extracted, guard, root, filters,
                   ctx, idx, calls, template, rendered, stdout, exitCode>>

\* The loop of env.add_filter over the specs with a function.
FilterNamesOf(specs) ==
    {Unwrap(specs[i].function) : i \in {j \in 1..Len(specs) : IsSome(specs[j].function)}}

RegisterFilters ==
    /\ UNCHANGED <<procs, request, child, returned, environ>>
    /\ pc = "register"
    /\ filters' = FilterNamesOf(Unwrap(root).vars)
    /\ idx' = 1
    /\ pc' = IF Len(Unwrap(root).vars) = 0 THEN "read" ELSE "resolve"
    /\ UNCHANGED <<cli, home, cacheDirOk, fishFile, extracted, guard, root, ast,
                   ctx, calls, template, rendered, stdout, failure, exitCode>>

\* One iteration of the variable pass.
ResolveVar ==
    /\ UNCHANGED <<procs, request, child, returned, environ>>
    /\ pc = "resolve"
    /\ idx <= Len(Unwrap(root).vars)
    /\ LET st == ResolveSpec(Unwrap(root).vars[idx], idx,
                             [ctx |-> ctx, calls |-> calls, err |-> FALSE],
                             Unwrap(root).default_shell, extracted, fishFile)
       IN  /\ calls' = st.calls
           /\ IF st.err
              THEN /\ Fail("script")
                   /\ UNCHANGED <<ctx, idx>>
              ELSE /\ ctx' = st.ctx
                   /\ idx' = idx + 1
                   /\ pc' = IF idx = Len(Unwrap(root).vars) THEN "read" ELSE "resolve"
                   /\ UNCHANGED failure
    /\ UNCHANGED <<cli, home, cacheDirOk, fishFile, extracted, guard, root, ast,
                   filters, template, rendered, stdout, exitCode>>

\* The template read as soon as the variable pass has begun, the rest of
\* the pass left out.
ReadTemplateEarly ==
    /\ UNCHANGED <<procs, request, child, returned, environ>>
    /\ pc \in {"resolve", "read"}
    /\ \E t \in TemplateFiles :
        IF t.kind = "unreadable"
        THEN Fail("template_read") /\ UNCHANGED template
        ELSE template' = Some(t) /\ pc' = "add_template" /\ UNCHANGED failure
    /\ UNCHANGED <<cli, home, cacheDirOk, fishFile, extracted, guard, root, ast,
                   filters, ctx, idx, calls, rendered, stdout, exitCode>>

\* let template_text = fs::read_to_string(&template_path)?
ReadTemplate ==
    /\ UNCHANGED <<procs, request, child, returned, environ>>
    /\ pc = "read"
    /\ \E t \in TemplateFiles :
        IF t.kind = "unreadable"
        THEN Fail("template_read") /\ UNCHANGED template
        ELSE template' = Some(t) /\ pc' = "add_template" /\ UNCHANGED failure
    /\ UNCHANGED <<cli, home, cacheDirOk, fishFile, extracted, guard, root, ast,
                   filters, ctx, idx, calls, rendered, stdout, exitCode>>

\* env.add_template("main", &template_text)? and env.get_template("main")?
AddTemplate ==
    /\ UNCHANGED <<procs, request, child, returned, environ>>
    /\ pc = "add_template"
    /\ IF Unwrap(template).kind = "malformed" THEN Fail("template_syntax")
       ELSE pc' = "render" /\ UNCHANGED failure
    /\ UNCHANGED <<cli, home, cacheDirOk, fishFile, extracted, guard, root, ast,
                   filters, ctx, idx, calls, template, rendered, stdout, exitCode>>

\* let output = tmpl.render(ctx)?
RenderTemplate ==
    /\ UNCHANGED <<procs, request, child, returned, environ>>
    /\ pc = "render"
    /\ LET r == Render(Unwrap(template).items, ctx, filters, ast)
       IN  IF r.ok
           THEN rendered' = Some(r.text) /\ pc' = "print" /\ UNCHANGED failure
           ELSE Fail("render") /\ UNCHANGED rendered
    /\ UNCHANGED <<cli, home, cacheDirOk, fishFile, extracted, guard, root, ast,
                   filters, ctx, idx, calls, template, stdout, exitCode>>

\* println!("{output}"); Ok(())
PrintOutput ==
    /\ UNCHANGED <<procs, request, child, returned, environ>>
    /\ pc = "print"
    /\ stdout' = Append(stdout, Unwrap(rendered) \o <<"\n">>)
    /\ pc' = "exit"
    /\ UNCHANGED <<cli, home, cacheDirOk, fishFile, extracted, guard, root, ast,
                   filters, ctx, idx, calls, template, rendered, failure, exitCode>>

\* The return of main with the file removed only when main returns Ok.
ExitKeepOnError ==
    /\ UNCHANGED <<procs, request, child, returned, environ>>
    /\ pc = "exit"
    /\ fishFile' = IF guard /\ failure = "" THEN "absent" ELSE fishFile
    /\ guard' = FALSE
    /\ exitCode' = Some(IF failure = "" THEN 0 ELSE 1)
    /\ pc' = "done"
    /\ UNCHANGED <<cli, home, cacheDirOk, extracted, root, ast, filters, ctx, idx,
                   calls, template, rendered, stdout, failure>>

\* The return of main with the error dropped: the exit code is always 0.
ExitZero ==
    /\ UNCHANGED <<procs, request, child, returned, environ>>
    /\ pc = "exit"
    /\ fishFile' = IF guard THEN "absent" ELSE fishFile
    /\ guard' = FALSE
    /\ exitCode' = Some(0)
    /\ pc' = "done"
    /\ UNCHANGED <<cli, home, cacheDirOk, extracted, root, ast, filters, ctx, idx,
                   calls, template, rendered, stdout, failure>>

\* main returns: CleanupGuard::drop removes the file, the process exits with
\* 0 for Ok and 1 for Err.
Exit ==
    /\ UNCHANGED <<procs, request, child, returned, environ>>
    /\ pc = "exit"
    /\ fishFile' = IF guard THEN "absent" ELSE fishFile
    /\ guard' = FALSE
    /\ exitCode' = Some(IF failure = "" THEN 0 ELSE 1)
    /\ pc' = "done"
    /\ UNCHANGED <<cli, home, cacheDirOk, extracted, root, ast, filters, ctx, idx,
                   calls, template, rendered, stdout, failure>>

Next ==
    \/ PrintInfo
    \/ RequireTemplate
    \/ ExtractShell
    \/ VerifyShell
    \/ LoadConfig
    \/ CompileFunctions
    \/ RegisterFilters
    \/ ResolveVar
    \/ ReadTemplate
    \/ AddTemplate
    \/ RenderTemplate
    \/ PrintOutput
    \/ Exit

Spec == Init /\ [][Next]_vars

\* ------------------------------------ one call of eval_cmd, any child output
\* The tokens a child writes, and what a child can do once it runs.
OutTokens == {" ", "\n", "a", "b"}
ChildRuns ==
    [stdout : SeqsUpTo(OutTokens, MaxOut), stderr : {<<>>, <<"oops">>}, status : {0, 1}]
EvalRequests ==
    {[cmd |-> CmdOne, shell |-> sh, global_default |-> None, cwd |-> None, env |-> None] :
        sh \in {Some("sh"), Some("nosuch")}}

\* eval_cmd for a request, with the child doing what `run` says when the
\* interpreter can be spawned.
EvalCmdOf(req, run) ==
    LET program == Program(ShellChoice(req.shell, req.global_default), Some(BinPath))
        spawn == Output(program, req.cmd, req.cwd, "present")
    IN  FormatOutput(IF spawn.ok
                     THEN [spawn EXCEPT !.out = run.stdout, !.stderr = run.stderr,
                                        !.status = run.status]
                     ELSE spawn)

\* The variables of main(), at rest.
MainAtRest ==
    /\ pc = "start"
    /\ cli = [template |-> None, info |-> FALSE]
    /\ home = TRUE
    /\ cacheDirOk = TRUE
    /\ extracted = None
    /\ guard = FALSE
    /\ root = None
    /\ ast = {}
    /\ filters = {}
    /\ ctx = <<>>
    /\ idx = 1
    /\ calls = <<>>
    /\ template = None
    /\ rendered = None
    /\ stdout = <<>>
    /\ failure = ""
    /\ exitCode = None
    /\ environ = ParentEnv

EvalInit ==
    /\ MainAtRest
    /\ fishFile = "present"
    /\ procs = <<>>
    /\ request \in {Some(r) : r \in EvalRequests}
    /\ child \in {Some(c) : c \in ChildRuns}
    /\ returned = None

EvalCmdCall ==
    /\ IsNone(returned)
    /\ returned' = Some(EvalCmdOf(Unwrap(request), Unwrap(child)))
    /\ UNCHANGED <<pc, cli, home, cacheDirOk, fishFile, extracted, guard, root, ast,
                   filters, ctx, idx, calls, template, rendered, stdout, failure,
                   exitCode, procs, request, child, environ>>

EvalNext == EvalCmdCall

EvalSpec == EvalInit /\ [][EvalNext]_vars

\* ------------------------------------ invocations sharing the cache directory
\* Each invocation is a process of its own, with its own EXTRACTED_SHELL and
\* its own CleanupGuard; the file at BinPath is shared.
Procs == 1..MaxProcs

\* An invocation that has not called get_embedded_shell_path yet.
\*   pc       where the invocation is: "start", "create" (exists() said no),
\*            "write" (the file is open, being written), "main" (the path is
\*            returned and the guard alive), "child" (waiting for a spawned
\*            fish), "done", "panicked"
\*   cell     its EXTRACTED_SHELL
\*   outcome  how its initializer ended: "found", or the outcome of creating
\*   created  how many times it created the file
\*   linked   whether the file it has open or is executing is the one at BinPath
\*   later    what its calls after the first found at the path returned:
\*            "none" (no such call yet), "good" or "bad"
NotStarted ==
    [pc |-> "start", cell |-> None, outcome |-> "", created |-> 0,
     linked |-> FALSE, later |-> "none"]

\* Whether another invocation is writing the file now at BinPath.
OtherWriter(p) == \E q \in Procs \ {p} : procs[q].pc = "write" /\ procs[q].linked
\* Whether the file at BinPath is being executed: opening it for writing
\* fails with ExecutableFileBusy.
BeingExecuted ==
    fishFile # "absent" /\ \E q \in Procs : procs[q].pc = "child" /\ procs[q].linked

CacheInit ==
    /\ MainAtRest
    /\ fishFile \in {"absent", "present"}
    /\ procs = [p \in Procs |-> NotStarted]
    /\ request = None
    /\ child = None
    /\ returned = None

\* The first call: get_or_init runs the initializer up to bin_path.exists().
Begin(p) ==
    /\ procs[p].pc = "start"
    /\ LET r == GetEmbeddedShellPath(procs[p].cell, home, cacheDirOk, fishFile, "ok")
       IN  IF r.panic
           THEN procs' = [procs EXCEPT ![p].pc = "panicked", ![p].outcome = "no_dir"]
           ELSE IF fishFile # "absent"
           THEN procs' = [procs EXCEPT ![p].pc = "main", ![p].cell = r.path,
                                       ![p].outcome = "found"]
           ELSE procs' = [procs EXCEPT ![p].pc = "create"]
    /\ UNCHANGED <<pc, cli, home, cacheDirOk, fishFile, extracted, guard, root, ast,
                   filters, ctx, idx, calls, template, rendered, stdout, failure,
                   exitCode, request, child, returned, environ>>

\* fs::File::create(&bin_path), by an initializer that saw no file.
CreateFile(p) ==
    /\ procs[p].pc = "create"
    /\ \E o \in (IF BeingExecuted THEN {"busy"} ELSE {"ok", "denied"}) :
        LET r == InitEmbeddedShell(home, cacheDirOk, "absent", o)
        IN  IF r.panic
            THEN /\ procs' = [procs EXCEPT ![p].pc = "panicked", ![p].outcome = o]
                 /\ UNCHANGED fishFile
            ELSE IF o = "busy"
            THEN /\ procs' = [procs EXCEPT ![p].pc = "main", ![p].cell = r.path,
                                           ![p].outcome = o]
                 /\ UNCHANGED fishFile
            ELSE /\ procs' = [procs EXCEPT ![p].pc = "write", ![p].outcome = o,
                                           ![p].created = @ + 1, ![p].linked = TRUE]
                 /\ fishFile' = "partial"
    /\ UNCHANGED <<pc, cli, home, cacheDirOk, extracted, guard, root, ast,
                   filters, ctx, idx, calls, template, rendered, stdout, failure,
                   exitCode, request, child, returned, environ>>

\* write_all and set_permissions on the open file, and the return of the
\* path; the file at BinPath is complete when no other writer is left.
WriteFile(p) ==
    /\ procs[p].pc = "write"
    /\ \E o \in {"ok", "write_failed"} :
        LET r == InitEmbeddedShell(home, cacheDirOk, "absent", o)
        IN  IF r.panic
            THEN /\ procs' = [procs EXCEPT ![p].pc = "panicked", ![p].outcome = o,
                                           ![p].linked = FALSE]
                 /\ UNCHANGED fishFile
            ELSE /\ procs' = [procs EXCEPT ![p].pc = "main", ![p].cell = r.path,
                                           ![p].linked = FALSE]
                 /\ fishFile' = IF ~procs[p].linked THEN fishFile
                                ELSE IF OtherWriter(p) THEN "partial"
                                ELSE r.file
    /\ UNCHANGED <<pc, cli, home, cacheDirOk, extracted, guard, root, ast,
                   filters, ctx, idx, calls, template, rendered, stdout, failure,
                   exitCode, request, child, returned, environ>>

\* eval_cmd with the shell "fish": a later call of get_embedded_shell_path,
\* then the spawn of the file at the path it returned.
EvalCmdFish(p) ==
    /\ procs[p].pc = "main"
    /\ LET r == GetEmbeddedShellPath(procs[p].cell, home, cacheDirOk, fishFile, "ok")
           out == Output(Unwrap(r.path), CmdOne, None, r.file)
       IN  /\ fishFile' = r.file
           /\ procs' = [procs EXCEPT
                ![p].pc = IF r.panic THEN "panicked"
                          ELSE IF out.ok THEN "child" ELSE "main",
                ![p].cell = IF r.panic THEN @ ELSE r.path,
                ![p].created = IF r.file # fishFile THEN @ + 1 ELSE @,
                ![p].linked = ~r.panic /\ out.ok,
                ![p].later = IF fishFile = "present" /\ @ # "bad" THEN "good" ELSE "bad"]
    /\ UNCHANGED <<pc, cli, home, cacheDirOk, extracted, guard, root, ast,
                   filters, ctx, idx, calls, template, rendered, stdout, failure,
                   exitCode, request, child, returned, environ>>

\* command.output() returns: the child has exited.
ChildExit(p) ==
    /\ procs[p].pc = "child"
    /\ procs' = [procs EXCEPT ![p].pc = "main", ![p].linked = FALSE]
    /\ UNCHANGED <<pc, cli, home, cacheDirOk, fishFile, extracted, guard, root, ast,
                   filters, ctx, idx, calls, template, rendered, stdout, failure,
                   exitCode, request, child, returned, environ>>

\* main returns: CleanupGuard::drop removes whatever file is at the path.
ExitMain(p) ==
    /\ procs[p].pc = "main"
    /\ fishFile' = "absent"
    /\ procs' = [q \in Procs |->
                    IF q = p THEN [procs[q] EXCEPT !.pc = "done", !.linked = FALSE]
                    ELSE [procs[q] EXCEPT !.linked = FALSE]]
    /\ UNCHANGED <<pc, cli, home, cacheDirOk, extracted, guard, root, ast,
                   filters, ctx, idx, calls, template, rendered, stdout, failure,
                   exitCode, request, child, returned, environ>>

CacheNext ==
    \E p \in Procs :
        \/ Begin(p)
        \/ CreateFile(p)
        \/ WriteFile(p)
        \/ EvalCmdFish(p)
        \/ ChildExit(p)
        \/ ExitMain(p)

CacheSpec == CacheInit /\ [][CacheNext]_vars


\* ================================================================= claims
\* What the claims read off the state.
Loaded == IsSome(root)
Specs == Unwrap(root).vars
GlobalDefault == Unwrap(root).default_shell
CallsOf(j) == SelectSeq(calls, LAMBDA e : e.spec = j)
BranchCalls(j, b) == SelectSeq(calls, LAMBDA e : e.spec = j /\ e.branch = b)
SpawnFailed(e) == e.kind = "spawn" /\ ~e.ok
\* The positions of main after the variable pass has finished.
PastPass ==
    \/ pc \in {"read", "add_template", "render", "print"}
    \/ pc \in {"exit", "done"} /\ failure \in {"", "template_read", "template_syntax", "render"}
                               /\ Loaded /\ ~cli.info

\* C1: every spawn uses the per-variable shell if the spec has one, else the
\* global default if the configuration has one, else "fish", run from the
\* extracted binary; the global default is never used over a per-variable shell.
C1_ShellPrecedence ==
    \A n \in 1..Len(calls) :
        LET e == calls[n] IN
        e.kind = "spawn" =>
            LET shell == Specs[e.spec].shell IN
            /\ IsSome(shell) => e.shell_choice = Unwrap(shell)
            /\ IsNone(shell) /\ IsSome(GlobalDefault) =>
                    e.shell_choice = Unwrap(GlobalDefault)
            /\ IsNone(shell) /\ IsNone(GlobalDefault) =>
                    e.shell_choice = "fish" /\ e.program = BinPath

\* C1 witness: a run that spawned one command under a per-variable shell that
\* differs from the global default, and one under the global default.
C1_Witness ==
    /\ Loaded
    /\ IsSome(GlobalDefault)
    /\ \E m, n \in 1..Len(calls) :
        /\ calls[m].kind = "spawn" /\ calls[n].kind = "spawn"
        /\ IsSome(Specs[calls[m].spec].shell)
        /\ Unwrap(Specs[calls[m].spec].shell) # Unwrap(GlobalDefault)
        /\ calls[m].shell_choice = Unwrap(Specs[calls[m].spec].shell)
        /\ IsNone(Specs[calls[n].spec].shell)
        /\ calls[n].shell_choice = Unwrap(GlobalDefault)

\* C1 witness of the hard default: neither shell is given and the extracted
\* binary ran the command.
C1_WitnessHardDefault ==
    /\ Loaded
    /\ IsNone(GlobalDefault)
    /\ \E n \in 1..Len(calls) :
        /\ calls[n].kind = "spawn"
        /\ IsNone(Specs[calls[n].spec].shell)
        /\ calls[n].program = BinPath
        /\ calls[n].ok

\* C2: a spawn that fails yields "ERROR: <diagnostic>" and aborts nothing: the
\* string is the variable's value once its spec is resolved, the variable pass
\* is left early only by a script error, after the pass every command of every
\* named spec has been spawned, and a run with no other error renders.
C2_SpawnFailSoft ==
    /\ \A n \in 1..Len(calls) :
        LET e == calls[n] IN
        SpawnFailed(e) =>
            /\ Len(e.value) >= 2 /\ e.value[1] = "ERROR: "
            /\ failure \notin {"config", "compile", "no_template", "panic"}
            /\ failure = "script" =>
                    /\ calls[Len(calls)].kind = "script"
                    /\ ~calls[Len(calls)].ok
                    /\ calls[Len(calls)].spec > e.spec
            /\ (e.branch = "cmd" /\ IsNone(Specs[e.spec].cmds)
                    /\ pc \in {"resolve", "read"} /\ idx = e.spec + 1) =>
                    /\ HasKey(ctx, Unwrap(Specs[e.spec].name))
                    /\ Get(ctx, Unwrap(Specs[e.spec].name)) = e.value
    /\ PastPass =>
        \A j \in 1..Len(Specs) :
            IsSome(Specs[j].name) =>
                /\ IsSome(Specs[j].cmd) => Len(BranchCalls(j, "cmd")) = 1
                /\ IsSome(Specs[j].cmds) =>
                        Len(BranchCalls(j, "cmds")) = Len(Unwrap(Specs[j].cmds))
    /\ (pc = "done" /\ failure = "" /\ ~cli.info) =>
            IsSome(rendered) /\ exitCode = Some(0)

\* C2 witness: a finished run with exit code 0 in which the command of the
\* first spec failed to spawn, the second spec was resolved after it and the
\* rendered text shows the ERROR string.
C2_Witness ==
    /\ pc = "done"
    /\ exitCode = Some(0)
    /\ Len(calls) >= 2
    /\ SpawnFailed(calls[1]) /\ calls[1].spec = 1
    /\ calls[Len(calls)].spec = 2
    /\ Len(stdout) = 1
    /\ \E n \in 1..Len(stdout[1]) : stdout[1][n] = "ERROR: "

\* C3: a filter definition that does not compile aborts the run before the
\* variable pass: nothing is evaluated, spawned, registered, read or rendered,
\* wherever the definition sits among the specs.
BrokenFilter(spec) == IsSome(spec.function) /\ spec.script = ScriptSyntaxError
C3_CompileFailFast ==
    (Loaded /\ \E j \in 1..Len(Specs) : BrokenFilter(Specs[j])) =>
        /\ pc \in {"compile", "exit", "done"}
        /\ calls = <<>>
        /\ ctx = <<>>
        /\ filters = {}
        /\ template = None
        /\ rendered = None
        /\ stdout = <<>>
        /\ pc # "compile" => failure = "compile"
        /\ pc = "done" => exitCode = Some(1)

\* C3 witness: a finished run whose second spec is the broken filter and
\* whose first spec is a named command that was never spawned.
C3_Witness ==
    /\ pc = "done"
    /\ failure = "compile"
    /\ Len(Specs) = 2
    /\ BrokenFilter(Specs[2])
    /\ IsSome(Specs[1].name) /\ IsSome(Specs[1].cmd)
    /\ calls = <<>>

\* C4: a failing script of a named spec without a function aborts the run at
\* that spec: its own commands and every later spec are never run, the
\* template is not read, nothing is rendered and the context holds no entry
\* made by it; a spec the pass has gone past has no failing script.
FailingScriptVar(spec) ==
    /\ IsSome(spec.name)
    /\ IsNone(spec.function)
    /\ spec.script \in {ScriptSyntaxError, ScriptRuntimeError}
C4_ScriptFailFast ==
    /\ failure = "script" =>
        /\ pc \in {"exit", "done"}
        /\ FailingScriptVar(Specs[idx])
        /\ calls[Len(calls)] = ScriptCall(idx, Specs[idx].script)
        /\ \A n \in 1..Len(calls) :
                /\ calls[n].spec <= idx
                /\ calls[n].spec = idx => n = Len(calls)
        /\ Keys(ctx) \subseteq
                {Unwrap(Specs[j].name) : j \in {i \in 1..(idx - 1) : IsSome(Specs[i].name)}}
        /\ \A n \in 1..Len(ctx) :
                (ctx[n].v # <<>> /\ ctx[n].v[1] = "ERROR: ") =>
                    \E m \in 1..(Len(calls) - 1) :
                        /\ SpawnFailed(calls[m])
                        /\ Unwrap(Specs[calls[m].spec].name) = ctx[n].k
        /\ template = None
        /\ rendered = None
        /\ stdout = <<>>
        /\ pc = "done" => exitCode = Some(1)
    /\ (Loaded /\ pc \in {"resolve", "read", "add_template", "render", "print"}) =>
        \A j \in 1..(idx - 1) : ~FailingScriptVar(Specs[j])

\* C4 witness: a finished run that failed in the script of the first spec,
\* which also has a command, with a second named spec with a command behind it.
C4_Witness ==
    /\ pc = "done"
    /\ failure = "script"
    /\ idx = 1
    /\ IsSome(Specs[1].cmd)
    /\ Len(Specs) = 2
    /\ IsSome(Specs[2].name) /\ IsSome(Specs[2].cmd)
    /\ Len(calls) = 1

\* C5: when the call of a registered filter fails during rendering, render
\* returns the error: no text is rendered, nothing is printed and the run
\* ends with a failure.
Items == Unwrap(template).items
ValueOf(item) == IF HasKey(ctx, item.var) THEN Get(ctx, item.var) ELSE <<>>
FilterCallFails(item) ==
    /\ IsSome(item.filter)
    /\ Unwrap(item.filter) \in filters
    /\ ~CallFn(ast, Unwrap(item.filter), <<ValueOf(item)>>).ok
C5_FilterErrorPropagates ==
    (IsSome(template) /\ pc \in {"print", "exit", "done"}
        /\ \E n \in 1..Len(Items) : FilterCallFails(Items[n])) =>
            /\ failure = "render"
            /\ rendered = None
            /\ stdout = <<>>
            /\ pc # "print"
            /\ pc = "done" => exitCode = Some(1)

\* C5 witness: a finished run whose template renders a plain variable that is
\* in the context and then applies a registered filter whose call fails.
C5_Witness ==
    /\ pc = "done"
    /\ failure = "render"
    /\ Len(Items) = 2
    /\ IsNone(Items[1].filter) /\ HasKey(ctx, Items[1].var)
    /\ FilterCallFails(Items[2])
    /\ exitCode = Some(1)

\* C6 and C7 read the failure main returned with; these tie it to the state.
ListedFailures ==
    {"config", "compile", "script", "template_read", "template_syntax", "render"}
RenderedLine == Unwrap(rendered) \o <<"\n">>
FailureMatchesState ==
    /\ failure = "no_template" <=> (~cli.info /\ IsNone(cli.template))
    /\ failure = "panic" <=> IsNone(extracted) /\ (cli.info \/ IsSome(cli.template))
    /\ failure = "config" <=> (~cli.info /\ IsSome(extracted) /\ ~Loaded)
    /\ failure = "compile" <=> (Loaded /\ ~Compile(FuncDefs(Specs)).ok)
    /\ failure = "script" <=> \E n \in 1..Len(calls) : calls[n].kind = "script" /\ ~calls[n].ok
    /\ failure = "template_syntax" <=> (IsSome(template) /\ Unwrap(template).kind = "malformed")
    /\ failure = "render" <=>
            (IsSome(template) /\ Unwrap(template).kind = "text"
                /\ \E n \in 1..Len(Items) : ~RenderItem(Items[n], ctx, filters, ast).ok)

\* C6 as stated: the exit code is non-zero when one of the six listed failures
\* occurred, and in every other run it is zero with the rendered output on
\* standard output.
C6_Original ==
    pc = "done" =>
        /\ failure \in ListedFailures => exitCode # Some(0)
        /\ failure \notin ListedFailures =>
                /\ exitCode = Some(0)
                /\ IsSome(rendered)
                /\ stdout = <<RenderedLine>>

\* C6 as amended: the exit code is non-zero when one of the six listed failures
\* occurred, when the template path is missing without the info flag, or when
\* the extraction of the embedded shell panics (code 101); in every other run
\* it is zero, and in render mode the rendered output is on standard output.
C6_ExitCode ==
    pc = "done" =>
        /\ FailureMatchesState
        /\ failure \in ListedFailures \cup {"no_template", "panic", ""}
        /\ failure \in ListedFailures \cup {"no_template"} => exitCode = Some(1)
        /\ failure = "panic" => exitCode = Some(101)
        /\ failure = "" =>
                /\ exitCode = Some(0)
                /\ ~cli.info => IsSome(rendered) /\ stdout = <<RenderedLine>>
                /\ cli.info => IsNone(rendered) /\ Len(stdout) = 4

\* C6 witness: a finished render-mode run with exit code 0 and its output
\* written, reached through a configuration with a spec and a template with
\* an expression.
C6_Witness ==
    /\ pc = "done"
    /\ ~cli.info
    /\ exitCode = Some(0)
    /\ Len(Specs) >= 1
    /\ Len(Items) >= 1
    /\ stdout = <<RenderedLine>>

\* C7: in render mode standard output stays empty unless every phase
\* succeeded; it is written once, after the whole template rendered without
\* error, with the text of every expression, and never after a failure.
C7_NoPartialOutput ==
    ~cli.info =>
        /\ failure # "" => stdout = <<>>
        /\ pc \notin {"exit", "done"} => stdout = <<>>
        /\ (pc = "done" /\ failure = "") => Len(stdout) = 1
        /\ stdout # <<>> =>
            /\ Len(stdout) = 1
            /\ IsSome(extracted)
            /\ Loaded
            /\ Compile(FuncDefs(Specs)).ok
            /\ idx = Len(Specs) + 1
            /\ IsSome(template)
            /\ Unwrap(template).kind = "text"
            /\ \A n \in 1..Len(Items) : RenderItem(Items[n], ctx, filters, ast).ok
            /\ stdout[1] =
                    Concat([n \in 1..Len(Items) |->
                                RenderItem(Items[n], ctx, filters, ast).text])
                    \o <<"\n">>

\* C7 witness: a finished run that wrote, in one piece, the text of a
\* template of two expressions that both render to something.
C7_Witness ==
    /\ pc = "done"
    /\ ~cli.info
    /\ Len(stdout) = 1
    /\ Len(Items) = 2
    /\ \A n \in 1..2 : RenderItem(Items[n], ctx, filters, ast).text # <<>>
    /\ IsSome(Items[2].filter)

\* What C8, C9 and C10 read off a spec and its calls.
\* The branches of the variable pass a spec matches.
Sources(spec) ==
    {b \in {"script", "cmd", "cmds"} :
        \/ b = "script" /\ IsNone(spec.function) /\ ~TrimIsEmpty(spec.script)
        \/ b = "cmd" /\ IsSome(spec.cmd)
        \/ b = "cmds" /\ IsSome(spec.cmds)}
\* The calls of spec j, as <<branch, source>> in the order made.
Made(j) == [n \in 1..Len(CallsOf(j)) |-> <<CallsOf(j)[n].branch, CallsOf(j)[n].src>>]
\* The value the last branch of spec j inserted, from the calls recorded.
LastBranchValue(j) ==
    IF IsSome(Specs[j].cmds)
    THEN LET made == BranchCalls(j, "cmds")
         IN  Join([n \in 1..Len(made) |-> made[n].value], <<"\n">>)
    ELSE IF IsSome(Specs[j].cmd) THEN BranchCalls(j, "cmd")[1].value
    ELSE BranchCalls(j, "script")[1].value
\* The positions of main in or after the variable pass, without a script error.
InPass == Loaded /\ (pc = "resolve" \/ PastPass)
NamedBefore(i) == {j \in 1..(i - 1) : IsSome(Specs[j].name)}

\* C8: when every named spec has exactly one source (a script expression, a
\* command or a command list), the context holds one entry for each named
\* spec resolved so far, under its name, and no other key.
C8_OneEntryPerNamedSpec ==
    (InPass /\ \A j \in NamedBefore(idx) : Cardinality(Sources(Specs[j])) = 1) =>
        /\ Keys(ctx) = {Unwrap(Specs[j].name) : j \in NamedBefore(idx)}
        /\ Len(ctx) = Cardinality(Keys(ctx))

\* C8 witness: the pass finished over two specs of different names, one a
\* script and one a command list, and the context has the two entries.
C8_Witness ==
    /\ Loaded /\ PastPass
    /\ Len(Specs) = 2
    /\ Sources(Specs[1]) = {"script"}
    /\ Sources(Specs[2]) = {"cmds"}
    /\ Specs[1].name = Some("x") /\ Specs[2].name = Some("y")
    /\ Keys(ctx) = {"x", "y"}
    /\ Len(ctx) = 2

\* C9 as stated: a named spec that sets more than one of a non-empty script,
\* cmd and cmds has its script evaluated, its cmd spawned and every element of
\* its cmds spawned, in that order.
Overlapping(spec) ==
    /\ IsSome(spec.name)
    /\ Cardinality({b \in {"script", "cmd", "cmds"} :
            \/ b = "script" /\ ~TrimIsEmpty(spec.script)
            \/ b = "cmd" /\ IsSome(spec.cmd)
            \/ b = "cmds" /\ IsSome(spec.cmds)}) > 1
AllBranches(spec) ==
    (IF ~TrimIsEmpty(spec.script) THEN <<<<"script", spec.script>>>> ELSE <<>>)
    \o (IF IsSome(spec.cmd) THEN <<<<"cmd", Unwrap(spec.cmd)>>>> ELSE <<>>)
    \o (IF IsSome(spec.cmds)
        THEN [n \in 1..Len(Unwrap(spec.cmds)) |-> <<"cmds", Unwrap(spec.cmds)[n]>>]
        ELSE <<>>)
C9_Original ==
    (pc = "done" /\ Loaded /\ failure # "compile") =>
        \A j \in 1..Len(Specs) :
            (Overlapping(Specs[j]) /\ (j < idx \/ (j = idx /\ failure = "script"))) =>
                Made(j) = AllBranches(Specs[j])

\* C9 as amended: for such a spec every matching branch runs in the order
\* script, cmd, cmds, where the script branch matches only without a function
\* name and a script that fails ends the run before cmd and cmds are spawned;
\* when the spec is resolved, the value under its name is the one the last
\* matching branch inserted (cmds over cmd over script).
MatchingBranches(spec) ==
    (IF "script" \in Sources(spec) THEN <<<<"script", spec.script>>>> ELSE <<>>)
    \o (IF IsSome(spec.cmd) THEN <<<<"cmd", Unwrap(spec.cmd)>>>> ELSE <<>>)
    \o (IF IsSome(spec.cmds)
        THEN [n \in 1..Len(Unwrap(spec.cmds)) |-> <<"cmds", Unwrap(spec.cmds)[n]>>]
        ELSE <<>>)
C9_AllBranchesLastWins ==
    (Loaded /\ failure # "compile") =>
        \A j \in 1..Len(Specs) :
            Overlapping(Specs[j]) =>
                /\ (j < idx /\ pc # "compile" /\ pc # "register") =>
                        Made(j) = MatchingBranches(Specs[j])
                /\ (j = idx /\ failure = "script") =>
                        Made(j) = <<<<"script", Specs[j].script>>>>
                /\ (j = idx - 1 /\ pc \in {"resolve", "read"}
                        /\ Sources(Specs[j]) # {}) =>
                        /\ HasKey(ctx, Unwrap(Specs[j].name))
                        /\ Get(ctx, Unwrap(Specs[j].name)) = LastBranchValue(j)

\* C9 witness: the first spec has a script, a cmd and a cmds list; the three
\* ran in that order and the context holds the output of the cmds list.
C9_Witness ==
    /\ Loaded
    /\ pc \in {"resolve", "read"}
    /\ idx = 2
    /\ Sources(Specs[1]) = {"script", "cmd", "cmds"}
    /\ Made(1) = <<<<"script", ScriptOk>>, <<"cmd", CmdOne>>, <<"cmds", CmdTwo>>>>
    /\ Get(ctx, "x") = <<"two">>

\* C10: the keys of the context are unique, and the value under a name is the
\* one produced by the last spec, in declaration order, of those resolved so
\* far that carry the name and produced a value.
Producers(k, i) ==
    {j \in NamedBefore(i) : Specs[j].name = Some(k) /\ Sources(Specs[j]) # {}}
Last(S) == CHOOSE j \in S : \A i \in S : i <= j
C10_LastWriterWins ==
    /\ Len(ctx) = Cardinality(Keys(ctx))
    /\ InPass =>
        \A k \in Names :
            LET producers == Producers(k, idx)
            IN  IF producers = {} THEN ~HasKey(ctx, k)
                ELSE /\ HasKey(ctx, k)
                     /\ Get(ctx, k) = LastBranchValue(Last(producers))

\* C10 witness: two specs of one name produced different values and the
\* context holds one entry, with the value of the second.
C10_Witness ==
    /\ Loaded /\ PastPass
    /\ Len(Specs) = 2
    /\ Producers("x", idx) = {1, 2}
    /\ LastBranchValue(1) # LastBranchValue(2)
    /\ Len(ctx) = 1
    /\ Get(ctx, "x") = LastBranchValue(2)

\* C11: a cmds list of any length n is run element by element, each element
\* as a single cmd is (shell by the same precedence, the spec's cwd and env):
\* n spawns in list order whatever their outcome, a failed spawn giving its
\* "ERROR: " string as one element, and the value stored is the n results
\* with exactly one newline between consecutive ones, empty for an empty list.
Resolved(j) == Loaded /\ pc \in {"resolve", "read"} /\ idx = j + 1
WithNewlines(vs) ==
    Concat([k \in 1..Len(vs) |-> IF k = 1 THEN vs[k] ELSE <<"\n">> \o vs[k]])
C11_CmdsJoined ==
    \A j \in 1..(IF Loaded THEN Len(Specs) ELSE 0) :
        (Resolved(j) /\ IsSome(Specs[j].name) /\ IsSome(Specs[j].cmds)) =>
            LET spec == Specs[j]
                list == Unwrap(spec.cmds)
                made == BranchCalls(j, "cmds")
            IN  /\ Len(made) = Len(list)
                /\ \A k \in 1..Len(list) :
                    /\ made[k].kind = "spawn"
                    /\ made[k].src = list[k]
                    /\ made[k].shell_choice =
                        (IF IsSome(spec.shell) THEN Unwrap(spec.shell)
                         ELSE IF IsSome(GlobalDefault) THEN Unwrap(GlobalDefault)
                         ELSE "fish")
                    /\ made[k].cwd = spec.cwd
                    /\ made[k].env = ChildEnv(spec.env)
                    /\ IF made[k].ok
                       THEN made[k].value = Trim(ChildStdout(list[k]))
                       ELSE made[k].value[1] = "ERROR: "
                    /\ \A e \in Range(calls) :
                        (e.branch = "cmd" /\ e.src = made[k].src
                            /\ e.program = made[k].program /\ e.cwd = made[k].cwd
                            /\ e.env = made[k].env) => e.value = made[k].value
                /\ Get(ctx, Unwrap(spec.name)) =
                        WithNewlines([k \in 1..Len(made) |-> made[k].value])
                /\ list = <<>> => Get(ctx, Unwrap(spec.name)) = <<>>

\* C11 witness: a list of two commands whose spawns both failed left two
\* "ERROR: " strings with one newline between them, and the next spec's list
\* of two commands left its two trimmed outputs joined the same way.
C11_Witness ==
    /\ Resolved(2)
    /\ Specs[1].cmds = Some(<<CmdTwo, CmdOne>>) /\ Specs[1].shell = Some("nosuch")
    /\ Specs[2].cmds = Some(<<CmdTwo, CmdOne>>) /\ Specs[2].name = Some("y")
    /\ Len(Get(ctx, "x")) = 5
    /\ Get(ctx, "x")[1] = "ERROR: " /\ Get(ctx, "x")[3] = "\n"
    /\ Get(ctx, "x")[4] = "ERROR: "
    /\ Get(ctx, "y") = <<"two", "\n", "one">>

\* C11 witness for the empty list: no spawn, the empty string stored.
C11_WitnessEmpty ==
    /\ Resolved(1)
    /\ Specs[1].cmds = Some(<<>>)
    /\ calls = <<>>
    /\ Get(ctx, "x") = <<>>

\* C12: when the variable pass has finished, the calls made are exactly the
\* script of each named spec without a function, its cmd and each element of
\* its cmds, each once, spec by spec in declaration order and script, cmd,
\* cmds within a spec; a failed spawn is not tried again.
ExpectedOf(j) ==
    LET spec == Specs[j]
    IN  IF IsNone(spec.name) THEN <<>>
        ELSE (IF IsNone(spec.function) /\ ~TrimIsEmpty(spec.script)
              THEN <<<<j, "script", spec.script>>>> ELSE <<>>)
             \o (IF IsSome(spec.cmd) THEN <<<<j, "cmd", Unwrap(spec.cmd)>>>> ELSE <<>>)
             \o (IF IsSome(spec.cmds)
                 THEN [n \in 1..Len(Unwrap(spec.cmds)) |-> <<j, "cmds", Unwrap(spec.cmds)[n]>>]
                 ELSE <<>>)
ExpectedCalls == Concat([j \in 1..Len(Specs) |-> ExpectedOf(j)])
ActualCalls == [n \in 1..Len(calls) |-> <<calls[n].spec, calls[n].branch, calls[n].src>>]
C12_EachCallOnceInOrder ==
    (Loaded /\ PastPass) => ActualCalls = ExpectedCalls

\* C12 witness: rendering is reached after a spec whose one spawn failed
\* and a spec with a list of two commands: three calls, in that order.
C12_Witness ==
    /\ Loaded /\ pc = "render"
    /\ Len(Specs) = 2
    /\ Len(calls) = 3
    /\ calls[1].spec = 1 /\ calls[1].branch = "cmd" /\ SpawnFailed(calls[1])
    /\ calls[2].spec = 2 /\ calls[2].src = CmdTwo
    /\ calls[3].spec = 2 /\ calls[3].src = CmdOne

C16_WitnessInfo ==
    /\ pc = "done"
    /\ cli.info
    /\ IsSome(extracted)
    /\ stdout[Len(stdout)] = <<"Embedded Shell Verification: ", "[OK]">>
    /\ fishFile = "absent"

\* C17: every spec with a function name, named or not and wherever it stands
\* in the list, has a filter of that name registered when rendering starts;
\* a rendered expression with a filter shows what the compiled function of
\* that name taking one parameter returns for the variable's value as its
\* only argument, in its string form ("ONE!" for upper-case plus "!" on "one").
Applied(d, value) ==
    IF d.body = ScriptShout THEN [i \in 1..Len(value) |-> UpperToken(value[i])] \o <<"!">>
    ELSE IF d.body = ScriptOk THEN <<"42">>
    ELSE <<>>
Piece(item) ==
    IF IsNone(item.filter) THEN ValueOf(item)
    ELSE Applied(CHOOSE d \in ast : d.name = Unwrap(item.filter) /\ Len(d.params) = 1,
                 ValueOf(item))
C17_FilterPerFunction ==
    /\ (Loaded /\ (pc \in {"render", "print"} \/ IsSome(rendered) \/ failure = "render")) =>
            \A j \in 1..Len(Specs) :
                IsSome(Specs[j].function) =>
                    /\ Unwrap(Specs[j].function) \in filters
                    /\ [name |-> Unwrap(Specs[j].function),
                        params |-> Specs[j].arguments,
                        body |-> Specs[j].script] \in ast
    /\ IsSome(rendered) =>
            /\ \A n \in 1..Len(Items) :
                IsSome(Items[n].filter) =>
                    \E d \in ast : d.name = Unwrap(Items[n].filter) /\ Len(d.params) = 1
            /\ Unwrap(rendered) = Concat([n \in 1..Len(Items) |-> Piece(Items[n])])

\* C17 witness: a function spec without a name, standing after the variable
\* it is applied to, turned the command's output "one" into "ONE!".
C17_Witness ==
    /\ Loaded
    /\ Len(Specs) = 2
    /\ Specs[1].cmd = Some(CmdOne) /\ IsNone(Specs[1].function)
    /\ Specs[2].function = Some("f") /\ IsNone(Specs[2].name)
    /\ Specs[2].script = ScriptShout
    /\ IsSome(template)
    /\ Items = <<[var |-> "x", filter |-> Some("f")]>>
    /\ rendered = Some(<<"ONE", "!">>)

\* C17 witness for a spec with both a name and a function: its filter
\* rendered the string form of the number the function returns.
C17_WitnessNamed ==
    /\ Loaded
    /\ Len(Specs) = 1
    /\ Specs[1].name = Some("x") /\ Specs[1].function = Some("f")
    /\ IsSome(template)
    /\ Items = <<[var |-> "x", filter |-> Some("f")]>>
    /\ rendered = Some(<<"42">>)

\* C20 as stated: a variable whose command string names an executable that
\* does not exist resolves to a string starting with "ERROR:".
StartsWithError(v) == Len(v) > 0 /\ v[1] = "ERROR: "
Startable(e) ==
    /\ e.program \in Installed \cup {BinPath}
    /\ IsSome(e.cwd) => Unwrap(e.cwd) \in Directories
C20_WitnessNoInterpreter ==
    /\ Resolved(2)
    /\ Specs[1].cmd = Some(CmdOne) /\ Specs[1].shell = Some("nosuch")
    /\ StartsWithError(Get(ctx, "x"))
    /\ Specs[2].name = Some("y")
    /\ Get(ctx, "y") = <<"one">>

\* C13: every call of get_embedded_shell_path after the first returns a path
\* at which a completely written, executable copy of the interpreter exists
\* at the time of the call, whatever the other invocations sharing the cache
\* directory are doing.
C13_LaterCallsFindFile ==
    \A p \in DOMAIN procs : procs[p].later # "bad"

\* C14 as stated: over all invocations sharing the cache directory the file
\* is created at most once.
RECURSIVE TotalCreated(_)
TotalCreated(n) == IF n = 0 THEN 0 ELSE procs[n].created + TotalCreated(n - 1)
C14_Original == TotalCreated(Len(procs)) <= 1

\* C14 as amended: each invocation creates the file at most once, an
\* invocation that found the file present has not created or rewritten it, and
\* once the first call has returned every call returns the same path.
Returned(p) == procs[p].pc \in {"main", "child", "done"}
C14_OncePerInvocation ==
    \A p \in DOMAIN procs :
        /\ procs[p].created <= 1
        /\ procs[p].outcome \in {"found", "busy"} => procs[p].created = 0
        /\ procs[p].created = 1 => procs[p].outcome \in {"ok", "write_failed"}
        /\ Returned(p) => procs[p].cell = Some(BinPath)
        /\ procs[p].later # "none" => Returned(p)

\* C14 witness: one invocation created the file, the other found it present
\* and returned its path without writing; both called again afterwards.
C14_Witness ==
    \E p, q \in DOMAIN procs :
        /\ procs[p].outcome = "ok" /\ procs[p].created = 1
        /\ procs[q].outcome = "found" /\ procs[q].created = 0
        /\ procs[p].later = "good" /\ procs[q].later = "good"
        /\ procs[p].cell = Some(BinPath) /\ procs[q].cell = Some(BinPath)

\* C15: with two or more invocations interleaved in any way, an initializer
\* ends in a panic only when the disk refused its own create or write, never
\* because of what another invocation did; an initializer whose create
\* failed with ExecutableFileBusy has returned the path as a success.
C15_BusyIsSuccess ==
    \A p \in DOMAIN procs :
        /\ procs[p].pc = "panicked" =>
                procs[p].outcome \in {"denied", "write_failed", "no_dir"}
        /\ procs[p].outcome = "busy" =>
                /\ Returned(p)
                /\ procs[p].cell = Some(BinPath)

\* C15 witness: an invocation whose create failed with ExecutableFileBusy,
\* because another invocation's child is executing the file, is past the
\* initializer with the path in its cell.
C15_Witness ==
    \E p, q \in DOMAIN procs :
        /\ procs[p].outcome = "busy"
        /\ procs[p].pc = "main"
        /\ procs[p].cell = Some(BinPath)
        /\ procs[q].pc = "child" /\ procs[q].linked

\* C18: when the interpreter was spawned, eval_cmd returns the child's
\* standard output without its leading and trailing whitespace: a slice of
\* the output that neither starts nor ends with whitespace, with nothing
\* but whitespace cut off on either side, so that the interior is kept as
\* it was and an output of whitespace only, or none, gives the empty string.
Spawnable(req) == ShellChoice(req.shell, req.global_default) \in Installed
IsBlank(t) == t \in {" ", "\n", "\t"}
C18_TrimmedStdout ==
    (IsSome(returned) /\ Spawnable(Unwrap(request))) =>
        LET out == Unwrap(child).stdout
            r == Unwrap(returned)
        IN  /\ \E i \in 1..(Len(out) + 1) :
                /\ r = SubSeq(out, i, i + Len(r) - 1)
                /\ i + Len(r) - 1 <= Len(out)
                /\ \A k \in 1..(i - 1) : IsBlank(out[k])
                /\ \A k \in (i + Len(r))..Len(out) : IsBlank(out[k])
            /\ r # <<>> => (~IsBlank(r[1]) /\ ~IsBlank(r[Len(r)]))
            /\ (\A k \in 1..Len(out) : IsBlank(out[k])) => r = <<>>

\* C18 witness: the blanks on both sides are gone and the newline between
\* the two words is kept.
C18_Witness ==
    /\ IsSome(returned)
    /\ Unwrap(child).stdout = <<"\n", "a", "\n", "b", " ">>
    /\ returned = Some(<<"a", "\n", "b">>)

\* C18 witness for several trailing blanks: all of them are gone.
C18_WitnessTrailing ==
    /\ IsSome(returned)
    /\ Unwrap(child).stdout = <<" ", "a", "\n", " ", "\n">>
    /\ returned = Some(<<"a">>)

\* C18 witness for an output of whitespace only.
C18_WitnessBlank ==
    /\ IsSome(returned)
    /\ Unwrap(child).stdout = <<" ", "\n">>
    /\ returned = Some(<<>>)

C21_Original ==
    \A j \in 1..(IF Loaded THEN Len(Specs) ELSE 0) :
        (Resolved(j) /\ IsNone(Specs[j].function) /\ IsSome(Specs[j].name)
            /\ Specs[j].script # "") =>
                /\ Len(BranchCalls(j, "script")) = 1
                /\ HasKey(ctx, Unwrap(Specs[j].name))
                /\ Get(ctx, Unwrap(Specs[j].name)) = BranchCalls(j, "script")[1].value

\* C21 as amended: the script of such a spec is evaluated, once, when it is
\* not blank (a script of whitespace only is skipped like an empty one); an
\* evaluation that fails ends the run; one that succeeds leaves the string
\* form of the result under the name, unless the spec's own cmd or cmds
\* then replaces it.
NotBlank(script) == script \notin {"", "  "}
C21_ScriptVariable ==
    /\ \A e \in Range(calls) : e.kind = "script" => NotBlank(e.src)
    /\ \A j \in 1..(IF Loaded THEN Len(Specs) ELSE 0) :
        (Resolved(j) /\ IsNone(Specs[j].function) /\ IsSome(Specs[j].name)) =>
            LET spec == Specs[j]
                made == BranchCalls(j, "script")
            IN  IF NotBlank(spec.script)
                THEN /\ Len(made) = 1
                     /\ made[1].src = spec.script
                     /\ made[1].ok
                     /\ spec.script = ScriptOk => made[1].value = <<"42">>
                     /\ (IsNone(spec.cmd) /\ IsNone(spec.cmds)) =>
                            /\ HasKey(ctx, Unwrap(spec.name))
                            /\ Get(ctx, Unwrap(spec.name)) = made[1].value
                ELSE /\ made = <<>>
                     /\ (j = 1 /\ IsNone(spec.cmd) /\ IsNone(spec.cmds)) => ctx = <<>>
    /\ (failure = "script" /\ pc \in {"exit", "done"}) =>
            /\ ~calls[Len(calls)].ok
            /\ calls[Len(calls)].kind = "script"
            /\ calls[Len(calls)].spec = idx

\* C21 witness: the script "40 + 2" of the first spec left "42" under x.
C21_Witness ==
    /\ Resolved(1)
    /\ Specs[1].script = ScriptOk
    /\ IsNone(Specs[1].function) /\ IsNone(Specs[1].cmd) /\ IsNone(Specs[1].cmds)
    /\ Len(calls) = 1 /\ calls[1].kind = "script"
    /\ ctx = <<[k |-> "x", v |-> <<"42">>]>>

\* C21 witness for a script of whitespace only: no evaluation, no entry.
C21_WitnessBlank ==
    /\ Resolved(1)
    /\ Specs[1].script = ScriptBlank
    /\ IsSome(Specs[1].name)
    /\ calls = <<>>
    /\ ctx = <<>>

\* C22: every script evaluation and every filter call runs in a scope of its
\* own. A script call's outcome is fixed by its source text alone: the script
\* that reads the variable nope fails also after an earlier script defined
\* nope, a script that evaluates to 42 does so wherever it stands, and two
\* evaluations of one text agree. A filter whose body reads nope fails in
\* every render, and a filter applied twice to one value gives the same text
\* both times.
ScriptCalls == SelectSeq(calls, LAMBDA e : e.kind = "script")
FilterDef(item) ==
    CHOOSE d \in ast : d.name = Unwrap(item.filter) /\ Len(d.params) = 1
C22_FreshScope ==
    /\ \A n \in 1..Len(ScriptCalls) :
            LET e == ScriptCalls[n]
            IN  /\ e.src = ScriptRuntimeError => ~e.ok /\ e.value = <<>>
                /\ e.src \in {ScriptOk, ScriptDefine} => e.ok /\ e.value = <<"42">>
                /\ \A m \in 1..(n - 1) :
                        ScriptCalls[m].src = e.src =>
                            /\ ScriptCalls[m].ok = e.ok
                            /\ ScriptCalls[m].value = e.value
    /\ IsSome(rendered) =>
            /\ \A n \in 1..Len(Items) :
                    IsSome(Items[n].filter) =>
                        FilterDef(Items[n]).body # ScriptRuntimeError
            /\ (Len(Items) = 2 /\ Items[1] = Items[2] /\ IsSome(Items[1].filter)) =>
                    LET once == Filter(ast, Unwrap(Items[1].filter), ValueOf(Items[1]))
                    IN  once.ok /\ Unwrap(rendered) = once.value \o once.value

\* C22 witness: the first script defined the variable nope and the second,
\* which reads nope, failed all the same.
C22_Witness ==
    /\ pc = "done"
    /\ failure = "script"
    /\ Len(calls) = 2
    /\ calls[1].src = ScriptDefine /\ calls[1].ok
    /\ calls[2].src = ScriptRuntimeError /\ ~calls[2].ok
    /\ ctx = <<[k |-> "y", v |-> <<"42">>]>>

\* C22 witness for filters: after a script defined nope, the filter whose
\* body reads nope failed in the render.
C22_WitnessFilter ==
    /\ pc = "done"
    /\ failure = "render"
    /\ Len(calls) = 1
    /\ calls[1].src = ScriptDefine /\ calls[1].ok
    /\ IsSome(template)
    /\ Len(Items) = 1
    /\ IsSome(Items[1].filter)
    /\ \E d \in ast : /\ d.name = Unwrap(Items[1].filter)
                      /\ Len(d.params) = 1
                      /\ d.body = ScriptRuntimeError

\* C22 witness for a filter called twice: both calls upper-cased the value.
C22_WitnessTwice ==
    /\ IsSome(template)
    /\ Len(Items) = 2
    /\ Items[1] = Items[2]
    /\ IsSome(Items[1].filter)
    /\ rendered = Some(<<"ONE", "!", "ONE", "!">>)

\* C23: the environment of every child is the environment of the process
\* with the pairs of its own spec's overlay added or put in place of the
\* entries of the same name, every other entry as inherited and no entry
\* twice; a child of a spec without an overlay gets the environment of the
\* process as it is, also after a spec with an overlay ran; and the
\* environment of the process itself is the one it started with.
Overlay(spec) == IF IsSome(spec.env) THEN Unwrap(spec.env) ELSE <<>>
C23_EnvOverlay ==
    /\ environ = ParentEnv
    /\ \A n \in 1..Len(calls) :
            calls[n].kind = "spawn" =>
                LET e == calls[n].env
                    o == Overlay(Specs[calls[n].spec])
                IN  IF o = <<>> THEN e = ParentEnv
                    ELSE /\ Keys(e) = Keys(ParentEnv) \cup Keys(o)
                         /\ Len(e) = Cardinality(Keys(e))
                         /\ \A key \in Keys(e) :
                                Get(e, key) = IF HasKey(o, key) THEN Get(o, key)
                                              ELSE Get(ParentEnv, key)

\* C23 witness: the three children of the first spec ran with PATH replaced
\* and FOO added, and the child of the second spec, which has no overlay,
\* ran with the environment of the process.
C23_Witness ==
    /\ Loaded
    /\ pc = "read"
    /\ Len(Specs) = 2
    /\ Keys(Overlay(Specs[1])) = {"PATH", "FOO"}
    /\ IsNone(Specs[2].env)
    /\ Len(calls) = 4
    /\ \A n \in 1..3 :
            /\ calls[n].spec = 1 /\ calls[n].ok
            /\ Get(calls[n].env, "PATH") = "/opt"
            /\ Get(calls[n].env, "FOO") = "2"
            /\ Get(calls[n].env, "LANG") = "C"
    /\ calls[4].spec = 2 /\ calls[4].ok
    /\ calls[4].env = ParentEnv
    /\ environ = ParentEnv

\* C24 as stated: a run with the info flag prints the diagnostics and returns
\* success, with nothing loaded, compiled, resolved, spawned or rendered.
Banner == <<<<"jinja-rs v">>, <<"Build Shell Source">>, <<"Embedded Size">>>>
NothingOfRenderMode ==
    /\ root = None
    /\ ast = {}
    /\ filters = {}
    /\ ctx = <<>>
    /\ calls = <<>>
    /\ template = None
    /\ rendered = None
C24_Original ==
    (cli.info /\ pc = "done") =>
        /\ exitCode = Some(0)
        /\ Len(stdout) = 4
        /\ SubSeq(stdout, 1, 3) = Banner
        /\ NothingOfRenderMode

\* C24 as amended: a run with the info flag, with or without a template
\* path, never loads the configuration, compiles, registers, resolves, spawns
\* a configured command, reads a template or renders. When the extraction of
\* the embedded shell succeeds it prints the three banner lines and the
\* verification line, [OK] or FAILED, and exits with 0 in both cases; when
\* the extraction panics it has printed the banner only and exits with 101.
C24_InfoMode ==
    cli.info =>
        /\ NothingOfRenderMode
        /\ failure \in {"", "panic"}
        /\ pc = "done" =>
            IF failure = "panic"
            THEN /\ exitCode = Some(101)
                 /\ stdout = Banner
                 /\ IsNone(extracted)
            ELSE /\ exitCode = Some(0)
                 /\ SubSeq(stdout, 1, 3) = Banner
                 /\ Len(stdout) = 4
                 /\ stdout[4] \in {<<"Embedded Shell Verification: ", "[OK]">>,
                                    <<"Embedded Shell Verification: ", "FAILED">>}

\* C24 witness: a run with the info flag and a template path whose
\* verification spawn failed ended with success and nothing rendered.
C24_Witness ==
    /\ pc = "done"
    /\ cli.info /\ IsSome(cli.template)
    /\ Len(stdout) = 4
    /\ stdout[4] = <<"Embedded Shell Verification: ", "FAILED">>
    /\ exitCode = Some(0)
    /\ rendered = None

\* C24 witness without a template path: the verification succeeded.
C24_WitnessNoTemplate ==
    /\ pc = "done"
    /\ cli.info /\ IsNone(cli.template)
    /\ Len(stdout) = 4
    /\ stdout[4] = <<"Embedded Shell Verification: ", "[OK]">>
    /\ exitCode = Some(0)

\* C25: an expression {{ name }} whose name is not in the context renders as
\* the empty string. A template of such plain expressions only always
\* renders: each expression gives the value of its name, or nothing when the
\* name is absent, and the run ends with exit code 0 and the text printed; a
\* render that fails has an expression with a filter in its template.
PlainText(item) == IF HasKey(ctx, item.var) THEN Get(ctx, item.var) ELSE <<>>
C25_MissingRendersEmpty ==
    (IsSome(template) /\ Unwrap(template).kind = "text"
        /\ pc \in {"print", "exit", "done"}) =>
            /\ failure \in {"", "render"}
            /\ failure = "render" => \E n \in 1..Len(Items) : IsSome(Items[n].filter)
            /\ (\A n \in 1..Len(Items) : IsNone(Items[n].filter)) =>
                    /\ rendered = Some(Concat([n \in 1..Len(Items) |-> PlainText(Items[n])]))
                    /\ pc = "done" => /\ exitCode = Some(0)
                                      /\ stdout = <<RenderedLine>>

\* C25 witness: no spec declares x; the template {{ x }} rendered as the
\* empty string and the run ended with exit code 0.
C25_Witness ==
    /\ pc = "done"
    /\ Loaded
    /\ Len(Specs) = 1
    /\ Specs[1].name = Some("y")
    /\ IsSome(template)
    /\ Items = <<[var |-> "x", filter |-> None]>>
    /\ HasKey(ctx, "y") /\ ~HasKey(ctx, "x")
    /\ rendered = Some(<<>>)
    /\ stdout = <<<<"\n">>>>
    /\ exitCode = Some(0)

\* C25 witness for a declaring spec without a value: x has a blank script
\* only, and {{ x }}{{ x }} rendered as the empty string.
C25_WitnessNoValue ==
    /\ pc = "done"
    /\ Loaded
    /\ Len(Specs) = 1
    /\ Specs[1].name = Some("x")
    /\ IsSome(template)
    /\ Len(Items) = 2
    /\ IsNone(Items[1].filter) /\ IsNone(Items[2].filter)
    /\ ctx = <<>>
    /\ rendered = Some(<<>>)
    /\ exitCode = Some(0)

\* C26: a function spec with no parameter or with two compiles like any
\* other: with such a spec in the configuration a compile failure has another
\* cause (a body that does not parse, two definitions of one name and
\* arity). The mismatch shows when a template expression calls the filter and
\* no function of that name takes one parameter: the render fails, after
\* the variable pass made every call of every spec, nothing is printed and
\* the exit code is 1. A template without any filter renders and the run
\* ends with exit code 0.
WrongArity(spec) == IsSome(spec.function) /\ Len(spec.arguments) # 1
NoUnaryDef(item) ==
    /\ IsSome(item.filter)
    /\ Unwrap(item.filter) \in filters
    /\ ~\E d \in ast : d.name = Unwrap(item.filter) /\ Len(d.params) = 1
C26_ArityAtRender ==
    (Loaded /\ \E j \in 1..Len(Specs) : WrongArity(Specs[j])) =>
        /\ failure = "compile" =>
                \/ \E j \in 1..Len(Specs) : BrokenFilter(Specs[j])
                \/ \E i, j \in 1..Len(Specs) :
                        /\ i < j
                        /\ IsSome(Specs[i].function)
                        /\ Specs[i].function = Specs[j].function
                        /\ Len(Specs[i].arguments) = Len(Specs[j].arguments)
        /\ (IsSome(template) /\ Unwrap(template).kind = "text"
                /\ pc \in {"print", "exit", "done"}) =>
            IF \E n \in 1..Len(Items) : NoUnaryDef(Items[n])
            THEN /\ failure = "render"
                 /\ rendered = None
                 /\ stdout = <<>>
                 /\ ActualCalls = ExpectedCalls
                 /\ pc = "done" => exitCode = Some(1)
            ELSE (\A n \in 1..Len(Items) : IsNone(Items[n].filter)) =>
                    /\ failure = ""
                    /\ IsSome(rendered)
                    /\ pc = "done" => exitCode = Some(0)

\* C26 witness: f takes no parameter; the command of x ran, and the render
\* of {{ x | f }} failed.
C26_Witness ==
    /\ pc = "done"
    /\ Loaded
    /\ Len(Specs) = 2
    /\ Specs[1].cmd = Some(CmdOne) /\ IsNone(Specs[1].function)
    /\ Specs[2].function = Some("f") /\ Specs[2].arguments = <<>>
    /\ IsSome(template)
    /\ Items = <<[var |-> "x", filter |-> Some("f")]>>
    /\ Len(calls) = 1 /\ calls[1].ok
    /\ "f" \in filters
    /\ failure = "render"
    /\ exitCode = Some(1)

\* C26 witness for a filter that is not used: f takes two parameters, the
\* template is {{ x }} and the run ended with exit code 0.
C26_WitnessUnused ==
    /\ pc = "done"
    /\ Loaded
    /\ Len(Specs) = 1
    /\ Specs[1].function = Some("f") /\ Specs[1].arguments = <<"s", "t">>
    /\ IsSome(template)
    /\ Items = <<[var |-> "x", filter |-> None]>>
    /\ "f" \in filters
    /\ IsSome(rendered)
    /\ exitCode = Some(0)

\* C27: no script evaluation is ever made for a spec with a function name.
\* For a resolved spec with both a name and a function the calls made are its
\* cmd and then its cmds, all spawns; the context holds under its name the
\* joined outputs of cmds, or else the output of cmd, when it has one of the
\* two; and once compilation is past, its body is in the compiled functions
\* under the function name.
NamedFunction(spec) == IsSome(spec.name) /\ IsSome(spec.function)
SpawnsOf(spec, j) ==
    (IF IsSome(spec.cmd) THEN <<<<j, "cmd", Unwrap(spec.cmd)>>>> ELSE <<>>)
    \o (IF IsSome(spec.cmds)
        THEN [n \in 1..Len(Unwrap(spec.cmds)) |-> <<j, "cmds", Unwrap(spec.cmds)[n]>>]
        ELSE <<>>)
C27_FunctionBodyNotEvaluated ==
    Loaded =>
        /\ \A n \in 1..Len(calls) :
                calls[n].kind = "script" => IsNone(Specs[calls[n].spec].function)
        /\ \A j \in 1..Len(Specs) :
                NamedFunction(Specs[j]) =>
                    /\ pc \in {"register", "resolve", "read"} =>
                            [name |-> Unwrap(Specs[j].function),
                             params |-> Specs[j].arguments,
                             body |-> Specs[j].script] \in ast
                    /\ Resolved(j) =>
                        LET made == CallsOf(j)
                        IN  /\ [n \in 1..Len(made) |->
                                    <<made[n].spec, made[n].branch, made[n].src>>]
                                    = SpawnsOf(Specs[j], j)
                            /\ \A n \in 1..Len(made) : made[n].kind = "spawn"
                            /\ (IsSome(Specs[j].cmd) \/ IsSome(Specs[j].cmds)) =>
                                    /\ HasKey(ctx, Unwrap(Specs[j].name))
                                    /\ Get(ctx, Unwrap(Specs[j].name)) = LastBranchValue(j)
                            /\ (j = 1 /\ IsNone(Specs[j].cmd) /\ IsNone(Specs[j].cmds)) =>
                                    ctx = <<>>

\* C27 witness: a spec named x with function f, a body, a cmd and a cmds of
\* one command: two spawns, no script evaluation, x holds the output of the
\* cmds command and f is registered.
C27_Witness ==
    /\ Loaded
    /\ pc = "read"
    /\ Len(Specs) = 1
    /\ NamedFunction(Specs[1])
    /\ Specs[1].script = ScriptShout
    /\ Len(calls) = 2
    /\ calls[1].branch = "cmd" /\ calls[1].ok
    /\ calls[2].branch = "cmds" /\ calls[2].ok
    /\ ctx = <<[k |-> "x", v |-> <<"two">>]>>
    /\ "f" \in filters

\* C27 witness for a body that would evaluate as an expression: x with
\* function f, body 40 + 2 and a cmd got the command's output, not 42.
C27_WitnessCmd ==
    /\ Loaded
    /\ pc = "read"
    /\ Len(Specs) = 1
    /\ NamedFunction(Specs[1])
    /\ Specs[1].script = ScriptOk
    /\ Len(calls) = 1
    /\ calls[1].kind = "spawn"
    /\ ctx = <<[k |-> "x", v |-> calls[1].value]>>
    /\ calls[1].value # <<"42">>

\* C28: a spawn runs the extracted binary, by its path in the cache, exactly
\* when the shell chosen for it is "fish", whether the spec's shell, the
\* global default or the hard default gave that name; it is then started
\* although no fish is on the search path, and the program is never the bare
\* name "fish". Under any other shell name the program is that name, and the
\* spawn succeeds only if the name is found on the search path.
CwdOk(e) == IsNone(e.cwd) \/ Unwrap(e.cwd) \in Directories
C28_FishIsBundled ==
    \A n \in 1..Len(calls) :
        LET e == calls[n] IN
        e.kind = "spawn" =>
            /\ e.shell_choice = "fish" <=> e.program = BinPath
            /\ e.program # "fish"
            /\ e.shell_choice = "fish" =>
                    /\ extracted = Some(BinPath)
                    /\ e.ok <=> CwdOk(e)
            /\ e.shell_choice # "fish" =>
                    /\ e.program = e.shell_choice
                    /\ e.ok <=> (CwdOk(e) /\ e.program \in Installed)

\* C28 witness: the spec's own shell is "fish" while the global default is
\* bash, and the extracted binary ran the command.
C28_Witness ==
    /\ Loaded
    /\ GlobalDefault = Some("bash")
    /\ Len(calls) = 1
    /\ Specs[calls[1].spec].shell = Some("fish")
    /\ calls[1].program = BinPath
    /\ calls[1].ok
    /\ "fish" \notin Installed

\* C28 witness for the global default: it is "fish", the spec has no shell,
\* and the extracted binary ran the command.
C28_WitnessGlobal ==
    /\ Loaded
    /\ GlobalDefault = Some("fish")
    /\ Len(calls) = 1
    /\ IsNone(Specs[calls[1].spec].shell)
    /\ calls[1].program = BinPath
    /\ calls[1].ok

\* C28 witness for another name: the global default is "fish", the spec's
\* shell is sh, and sh was launched by its name.
C28_WitnessOther ==
    /\ Loaded
    /\ GlobalDefault = Some("fish")
    /\ Len(calls) = 1
    /\ Specs[calls[1].spec].shell = Some("sh")
    /\ calls[1].program = "sh"
    /\ calls[1].ok

\* C29: in render mode a run without a template path fails at once: nothing
\* is extracted, no guard exists, nothing is loaded. With a template path the
\* extraction comes next and the configuration after it: whenever the
\* configuration is being or has been loaded, whatever shells its commands
\* name, the path is in EXTRACTED_SHELL, HOME and the cache directory were
\* usable, and until main returns the file is there under a guard. A panic of
\* the extraction ends the process with code 101 with nothing loaded, no call
\* made, no context entry and nothing printed; and no spawn of the extracted
\* binary fails for another reason than its working directory, so a failed
\* extraction never shows as an "ERROR:" value.
C29_ExtractionFirst ==
    ~cli.info =>
        /\ IsNone(cli.template) =>
                /\ pc \in {"start", "exit", "done"}
                /\ extracted = None
                /\ ~guard
                /\ root = None
                /\ pc # "start" => failure = "no_template"
                /\ pc = "done" => exitCode = Some(1)
        /\ pc = "extract" => IsSome(cli.template) /\ extracted = None /\ root = None
        /\ (pc = "load" \/ Loaded) =>
                /\ IsSome(cli.template)
                /\ extracted = Some(BinPath)
                /\ home /\ cacheDirOk
                /\ pc # "done" => fishFile = "present" /\ guard
        /\ failure = "panic" =>
                /\ pc = "done"
                /\ exitCode = Some(101)
                /\ IsSome(cli.template)
                /\ extracted = None
                /\ root = None
                /\ calls = <<>>
                /\ ctx = <<>>
                /\ stdout = <<>>
        /\ \A n \in 1..Len(calls) :
                (calls[n].kind = "spawn" /\ calls[n].program = BinPath /\ ~calls[n].ok)
                    => ~CwdOk(calls[n])

\* C29 witness: HOME and the cache directory are usable but the file could
\* not be created: the run with a template path ended in a panic, nothing
\* loaded.
C29_Witness ==
    /\ ~cli.info /\ IsSome(cli.template)
    /\ home /\ cacheDirOk
    /\ pc = "done"
    /\ failure = "panic"
    /\ fishFile = "absent"
    /\ root = None
    /\ exitCode = Some(101)

\* C29 witness without a template path: the run failed with the file never
\* created.
C29_WitnessNoTemplate ==
    /\ ~cli.info /\ IsNone(cli.template)
    /\ home /\ cacheDirOk
    /\ pc = "done"
    /\ failure = "no_template"
    /\ fishFile = "absent"
    /\ extracted = None
    /\ exitCode = Some(1)

\* C29 witness for a configuration that never uses the bundled interpreter:
\* its only command names sh, and the file was extracted all the same.
C29_WitnessExternal ==
    /\ Loaded
    /\ pc = "read"
    /\ Len(Specs) = 1
    /\ Specs[1].shell = Some("sh")
    /\ Len(calls) = 1
    /\ calls[1].program = "sh"
    /\ extracted = Some(BinPath)
    /\ fishFile = "present"
    /\ guard

\* C30: the template is read only when the variable pass is over. While main
\* is before or in the pass no template has been read; and when a template
\* has just been read, or reading or parsing it has failed, the pass has gone
\* through every spec, every script evaluation and every spawn of every named
\* spec has been made, in declaration order, and all scripts succeeded. A
\* run that fails on the template has rendered and printed nothing and ends
\* with exit code 1.
TemplateFailures == {"template_read", "template_syntax"}
C30_TemplateAfterPass ==
    /\ pc \in {"start", "info_extract", "info_verify", "extract", "load", "compile",
                "register", "resolve", "read"} => template = None
    /\ IsSome(template) => Loaded /\ idx = Len(Specs) + 1
    /\ (pc = "add_template" \/ failure \in TemplateFailures) =>
            /\ Loaded
            /\ idx = Len(Specs) + 1
            /\ ActualCalls = ExpectedCalls
            /\ \A n \in 1..Len(calls) : calls[n].kind = "script" => calls[n].ok
            /\ Keys(ctx) \subseteq {Unwrap(Specs[j].name) : j \in NamedBefore(idx)}
    /\ failure \in TemplateFailures =>
            /\ pc \in {"exit", "done"}
            /\ failure = "template_read" <=> template = None
            /\ rendered = None
            /\ stdout = <<>>
            /\ pc = "done" => exitCode = Some(1)

\* C30 witness: the template could not be read; before that the script of
\* the first spec was evaluated and the two commands of the second spawned.
C30_Witness ==
    /\ pc = "done"
    /\ failure = "template_read"
    /\ Len(Specs) = 2
    /\ Len(calls) = 3
    /\ calls[1].kind = "script" /\ calls[1].spec = 1
    /\ calls[2].kind = "spawn" /\ calls[2].spec = 2 /\ calls[2].src = CmdTwo
    /\ calls[3].kind = "spawn" /\ calls[3].spec = 2 /\ calls[3].src = CmdOne
    /\ Len(ctx) = 2
    /\ exitCode = Some(1)

\* C30 witness for a template that does not parse: the command of the only
\* spec was spawned before the failure.
C30_WitnessSyntax ==
    /\ pc = "done"
    /\ failure = "template_syntax"
    /\ Len(Specs) = 1
    /\ Len(calls) = 1
    /\ calls[1].kind = "spawn"
    /\ Len(ctx) = 1
    /\ exitCode = Some(1)


====
